---- MODULE Spec2Model ----
(***************************************************************************)
(* Legal AI Reader: the question-answering engine (modules/qa_engine.py)   *)
(* and the risk assessment engine (modules/enhanced_risk_detection.py).    *)
(*                                                                         *)
(* Spec      the LegalQAEngine object: set_document and answer_question    *)
(*           in any order on one engine instance.                          *)
(* SpecRisk  EnhancedRiskDetector: assess_risk applied to a document and   *)
(*           calculate_overall_risk_score applied to lists of factors.     *)
(* SpecSessions  two application sessions, each with its own engine.       *)
(* SpecMemory    the ChatMemory object.                                    *)
(* SpecAnswers   answer_question on an engine loaded with one document.    *)
(*                                                                         *)
(* Real numbers are exact: a confidence is a number of hundredths, a      *)
(* score is a reduced fraction [n, d].                                     *)
(***************************************************************************)
EXTENDS Integers, Sequences, FiniteSets, TLC

VARIABLES
    document_text,  \* LegalQAEngine.document_text
    entities,       \* LegalQAEngine.entities, a set of <<category, entity>> pairs
    qa_result,      \* the QAResult of the last answer_question call
    extractor,      \* the extractor the last answer_question call dispatched to
    preference,     \* the country_preference argument of that call
    loaded,         \* the arguments of the last set_document call
    loads,          \* number of set_document calls made
    suggestions,    \* the last get_suggested_questions call and what it returned
    engines,        \* the LegalQAEngine of each session: its text and entities
    session_loaded, \* the text each session gave to its last set_document call
    session_result, \* the last answer_question call of a session and its result
    memory,         \* ChatMemory.memory
    added,          \* per document id, the pairs added since it was last cleared
    memory_call,    \* the last ChatMemory call: its document id and what it returned
    risk_text,      \* the text given to assess_risk
    assessment,     \* the RiskAssessment of the last assess_risk call
    cs_factors,     \* risk_factors given to calculate_overall_risk_score
    cs_missing,     \* missing_clauses given to calculate_overall_risk_score
    cs_result,      \* the (score, level) pair it returned
    cs_prev,        \* the pair returned for the previous argument lists
    cs_confidence,  \* what _calculate_confidence returned for cs_factors
    cs_recommendations, \* what _generate_recommendations returned for the lists
    analysis,       \* the last analyze_document_with_all_modules call and its result
    op              \* the operation that produced the current state

vars == <<document_text, entities, qa_result, extractor, preference, loaded, loads,
          suggestions, engines, session_loaded, session_result, memory, added, memory_call,
          risk_text, assessment, cs_factors, cs_missing, cs_result, cs_prev,
          cs_confidence, cs_recommendations, analysis, op>>

qa_vars == <<document_text, entities, qa_result, extractor, preference, loaded, loads,
             suggestions>>

session_vars == <<engines, session_loaded, session_result>>

memory_vars == <<memory, added, memory_call>>

risk_vars == <<risk_text, assessment, cs_factors, cs_missing, cs_result, cs_prev,
               cs_confidence, cs_recommendations, analysis>>

Min(a, b) == IF a <= b THEN a ELSE b

Max(a, b) == IF a >= b THEN a ELSE b

Range(s) == {s[i] : i \in 1..Len(s)}

(***************************************************************************)
(* Text primitives.  Document text, questions and patterns are strings;   *)
(* a character is a string of length one.                                 *)
(***************************************************************************)
Digit == {"0", "1", "2", "3", "4", "5", "6", "7", "8", "9"}

LowerAZ == {"a", "b", "c", "d", "e", "f", "g", "h", "i", "j", "k", "l", "m",
            "n", "o", "p", "q", "r", "s", "t", "u", "v", "w", "x", "y", "z"}

UpperAZ == {"A", "B", "C", "D", "E", "F", "G", "H", "I", "J", "K", "L", "M",
            "N", "O", "P", "Q", "R", "S", "T", "U", "V", "W", "X", "Y", "Z"}

\* \s of the re module (the whitespace the documents use)
Space == {" ", "\n", "\t"}

\* \w of the re module
WordCh == LowerAZ \cup UpperAZ \cup Digit \cup {"_"}

ToLower == [c \in UpperAZ |->
    CASE c = "A" -> "a" [] c = "B" -> "b" [] c = "C" -> "c" [] c = "D" -> "d"
      [] c = "E" -> "e" [] c = "F" -> "f" [] c = "G" -> "g" [] c = "H" -> "h"
      [] c = "I" -> "i" [] c = "J" -> "j" [] c = "K" -> "k" [] c = "L" -> "l"
      [] c = "M" -> "m" [] c = "N" -> "n" [] c = "O" -> "o" [] c = "P" -> "p"
      [] c = "Q" -> "q" [] c = "R" -> "r" [] c = "S" -> "s" [] c = "T" -> "t"
      [] c = "U" -> "u" [] c = "V" -> "v" [] c = "W" -> "w" [] c = "X" -> "x"
      [] c = "Y" -> "y" [] c = "Z" -> "z"]

ToUpper == [c \in LowerAZ |-> CHOOSE u \in UpperAZ : ToLower[u] = c]

LowerCh(c) == IF c \in UpperAZ THEN ToLower[c] ELSE c

UpperCh(c) == IF c \in LowerAZ THEN ToUpper[c] ELSE c

RECURSIVE MapStr(_, _)
\* str.lower() / str.upper(), one character at a time
MapStr(s, up) ==
    IF Len(s) = 0 THEN ""
    ELSE IF Len(s) = 1 THEN (IF up THEN UpperCh(s) ELSE LowerCh(s))
    ELSE LET h == Len(s) \div 2
         IN  MapStr(SubSeq(s, 1, h), up) \o MapStr(SubSeq(s, h + 1, Len(s)), up)

Lower(s) == MapStr(s, FALSE)

\* s[i:j] of Python with 1-based inclusive bounds
Slice(s, i, j) == IF j < i THEN "" ELSE SubSeq(s, i, j)

CharAt(s, i) == SubSeq(s, i, i)

\* the `sub in s` operator of Python on strings
Contains(s, sub) ==
    \E i \in 1..(Len(s) - Len(sub) + 1) : Slice(s, i, i + Len(sub) - 1) = sub

\* str.find(sub): 1-based index of the first occurrence, 0 when absent
Find(s, sub) ==
    LET hits == {i \in 1..(Len(s) - Len(sub) + 1) : Slice(s, i, i + Len(sub) - 1) = sub}
    IN  IF hits = {} THEN 0 ELSE CHOOSE i \in hits : \A j \in hits : i <= j

\* str.strip()
Strip(s) ==
    LET keep == {i \in 1..Len(s) : CharAt(s, i) \notin Space}
    IN  IF keep = {} THEN ""
        ELSE LET lo == CHOOSE i \in keep : \A j \in keep : i <= j
                 hi == CHOOSE i \in keep : \A j \in keep : i >= j
             IN  SubSeq(s, lo, hi)

(***************************************************************************)
(* The re module: a backtracking matcher over the parsed pattern.  A      *)
(* pattern is a sequence of nodes; the matcher keeps the nodes still to   *)
(* be matched as a stack, so alternatives and repetitions are retried in  *)
(* the priority order of re (leftmost alternative, greedy or lazy).       *)
(***************************************************************************)
Lit(s) == [t |-> "lit", s |-> s]

Cls(S) == [t |-> "cls", c |-> S]

AnyCh == [t |-> "any"]

\* hi = -1 is an unbounded repetition
Rep(r, lo, hi, greedy) == [t |-> "rep", r |-> r, lo |-> lo, hi |-> hi, g |-> greedy]

Alt(rs) == [t |-> "alt", a |-> rs]

Grp(r) == [t |-> "grp", r |-> r]

WordB == [t |-> "wb"]

NegLook(r) == [t |-> "nla", r |-> r]

GOpen == [t |-> "gopen"]

GClose == [t |-> "gclose"]

NoMatch == [ok |-> FALSE, e |-> 0, gs |-> 0, ge |-> 0]

IsWordAt(txt, i) == i >= 1 /\ i <= Len(txt) /\ CharAt(txt, i) \in WordCh

\* does the one-character node h accept the character at position i
Accepts(cx, h, i) ==
    /\ i <= Len(cx.txt)
    /\ CASE h.t = "cls" -> \/ CharAt(cx.txt, i) \in h.c
                           \/ cx.ic /\ UpperCh(CharAt(cx.txt, i)) \in h.c
         [] h.t = "any" -> CharAt(cx.txt, i) # "\n"
         [] h.t = "lit" -> CharAt(cx.txt, i) = (IF cx.ic THEN LowerCh(h.s) ELSE h.s)

IsOneChar(r) ==
    /\ Len(r) = 1
    /\ \/ r[1].t \in {"cls", "any"}
       \/ r[1].t = "lit" /\ Len(r[1].s) = 1

\* the longest run of characters from position i that h accepts, at most hi:
\* the distance to the first position that h rejects
RunLength(cx, h, i, hi) ==
    LET last == IF hi = -1 THEN Len(cx.txt) ELSE Min(Len(cx.txt), i + hi - 1)
    IN  (CHOOSE j \in i..(last + 1) :
            /\ j = last + 1 \/ ~Accepts(cx, h, j)
            /\ \A k \in i..(j - 1) : Accepts(cx, h, k)) - i

\* the first result if it is a match, else the second
OrElse(first, second) == IF first.ok THEN first ELSE second

\* the repetition count tried first among those that let the rest match:
\* the largest for a greedy repetition, the smallest for a lazy one; -1 if none
PickCount(good, greedy) ==
    IF good = {} THEN -1
    ELSE IF greedy THEN CHOOSE c \in good : \A d \in good : c >= d
    ELSE CHOOSE c \in good : \A d \in good : c <= d

RECURSIVE M(_, _, _, _, _)
RECURSIVE MAt(_, _, _, _, _, _)
\* cx.txt is the subject (lowercased under re.IGNORECASE), st the nodes left,
\* i the position of the next character, gs/ge the span of group 1
M(cx, st, i, gs, ge) ==
    IF Len(st) = 0 THEN [ok |-> TRUE, e |-> i, gs |-> gs, ge |-> ge]
    ELSE MAt(cx, Head(st), Tail(st), i, gs, ge)

\* match node h at position i, then the nodes of rest
MAt(cx, h, rest, i, gs, ge) ==
    CASE h.t = "lit" ->
           IF /\ i + Len(h.s) - 1 <= Len(cx.txt)
              /\ CharAt(cx.txt, i) = (IF cx.ic THEN LowerCh(Head(h.s)) ELSE Head(h.s))
              /\ SubSeq(cx.txt, i, i + Len(h.s) - 1) = (IF cx.ic THEN Lower(h.s) ELSE h.s)
           THEN M(cx, rest, i + Len(h.s), gs, ge) ELSE NoMatch
      [] h.t \in {"cls", "any"} ->
           IF Accepts(cx, h, i) THEN M(cx, rest, i + 1, gs, ge) ELSE NoMatch
      [] h.t = "wb" ->
           IF IsWordAt(cx.txt, i - 1) # IsWordAt(cx.txt, i)
           THEN M(cx, rest, i, gs, ge) ELSE NoMatch
      [] h.t = "nla" ->
           IF M(cx, h.r, i, gs, ge).ok THEN NoMatch ELSE M(cx, rest, i, gs, ge)
      [] h.t = "grp" -> M(cx, <<GOpen>> \o h.r \o <<GClose>> \o rest, i, gs, ge)
      [] h.t = "gopen" -> M(cx, rest, i, i, ge)
      [] h.t = "gclose" -> M(cx, rest, i, gs, i)
      [] h.t = "alt" ->
           \* the alternatives in order, each followed by the rest
           OrElse(M(cx, h.a[1] \o rest, i, gs, ge),
                  IF Len(h.a) = 1 THEN NoMatch
                  ELSE MAt(cx, Alt(Tail(h.a)), rest, i, gs, ge))
      [] h.t = "rep" /\ IsOneChar(h.r) ->
           \* a repeated single character: the counts that let the rest match
           LET pick == PickCount({c \in h.lo..RunLength(cx, h.r[1], i, h.hi) :
                                     M(cx, rest, i + c, gs, ge).ok}, h.g)
           IN  IF pick = -1 THEN NoMatch ELSE M(cx, rest, i + pick, gs, ge)
      [] h.t = "rep" /\ ~IsOneChar(h.r) ->
           LET less == IF h.hi = -1 THEN -1 ELSE h.hi - 1
               more == h.r \o <<Rep(h.r, IF h.lo > 0 THEN h.lo - 1 ELSE 0, less, h.g)>> \o rest
           IN  IF h.lo > 0 THEN M(cx, more, i, gs, ge)
               ELSE IF h.hi = 0 THEN M(cx, rest, i, gs, ge)
               ELSE IF h.g THEN OrElse(M(cx, more, i, gs, ge), M(cx, rest, i, gs, ge))
               ELSE OrElse(M(cx, rest, i, gs, ge), M(cx, more, i, gs, ge))

\* can node h match at position p: a check of its first character only
MayMatch(cx, h, p) ==
    CASE h.t = "lit" -> /\ p <= Len(cx.txt)
                        /\ CharAt(cx.txt, p) = (IF cx.ic THEN LowerCh(Head(h.s)) ELSE Head(h.s))
      [] h.t \in {"cls", "any"} -> Accepts(cx, h, p)
      [] h.t = "wb" -> IsWordAt(cx.txt, p - 1) # IsWordAt(cx.txt, p)
      [] h.t = "rep" /\ h.lo > 0 /\ IsOneChar(h.r) -> Accepts(cx, h.r[1], p)
      [] OTHER -> TRUE

\* a match can start at p only if the first node, and the node after a
\* leading \b, can match there
CanStart(cx, re, p) ==
    /\ MayMatch(cx, re[1], p)
    /\ re[1].t = "wb" /\ Len(re) > 1 => MayMatch(cx, re[2], p)

RECURSIVE Scan(_, _, _, _)
\* the matches from position pos on; starts holds every position where the
\* pattern matches, and the search resumes where the last match ended
Scan(cx, re, starts, pos) ==
    LET ahead == {p \in starts : p >= pos}
        s == CHOOSE p \in ahead : \A q \in ahead : p <= q
        r == M(cx, re, s, 0, 0)
    IN  IF ahead = {} THEN <<>>
        ELSE <<[s |-> s, e |-> r.e, gs |-> r.gs, ge |-> r.ge]>>
             \o Scan(cx, re, starts, IF r.e > s THEN r.e ELSE s + 1)

\* the subject of a search: the text, lowercased under re.IGNORECASE
Subject(text, ic) == [txt |-> IF ic THEN Lower(text) ELSE text, ic |-> ic]

\* the non-overlapping matches of re in the subject, left to right, as spans
\* [s, e) with the span [gs, ge) of group 1
FindIn(re, cx) ==
    Scan(cx, re, {p \in 1..(Len(cx.txt) + 1) : CanStart(cx, re, p) /\ M(cx, re, p, 0, 0).ok}, 1)

\* re.finditer(pattern, text, flags)
FindIter(re, text, ic) == FindIn(re, Subject(text, ic))

\* match.group()
Group0(text, m) == Slice(text, m.s, m.e - 1)

\* match.group(1)
Group1(text, m) == Slice(text, m.gs, m.ge - 1)

\* self.currency_patterns, keyed by currency code
currency_patterns ==
    [USD |-> <<
       \* \$[\d,]+(?:\.\d{2})?
         <<Lit("$"), Rep(<<Cls(Digit \cup {","})>>, 1, -1, TRUE), Rep(<<Lit("."), Rep(<<Cls(Digit)>>, 2, 2, TRUE)>>, 0, 1, TRUE)>>,
       \* USD\s*[\d,]+
         <<Lit("USD"), Rep(<<Cls(Space)>>, 0, -1, TRUE), Rep(<<Cls(Digit \cup {","})>>, 1, -1, TRUE)>>,
       \* dollars?
         <<Lit("dollar"), Rep(<<Lit("s")>>, 0, 1, TRUE)>>
       >>,
     CAD |-> <<
       \* CAD\s*[\d,]+
         <<Lit("CAD"), Rep(<<Cls(Space)>>, 0, -1, TRUE), Rep(<<Cls(Digit \cup {","})>>, 1, -1, TRUE)>>,
       \* C\$[\d,]+
         <<Lit("C$"), Rep(<<Cls(Digit \cup {","})>>, 1, -1, TRUE)>>,
       \* Canadian\s+dollars?
         <<Lit("Canadian"), Rep(<<Cls(Space)>>, 1, -1, TRUE), Lit("dollar"), Rep(<<Lit("s")>>, 0, 1, TRUE)>>
       >>,
     GBP |-> <<
       \* £[\d,]+(?:\.\d{2})?
         <<Lit("£"), Rep(<<Cls(Digit \cup {","})>>, 1, -1, TRUE), Rep(<<Lit("."), Rep(<<Cls(Digit)>>, 2, 2, TRUE)>>, 0, 1, TRUE)>>,
       \* GBP\s*[\d,]+
         <<Lit("GBP"), Rep(<<Cls(Space)>>, 0, -1, TRUE), Rep(<<Cls(Digit \cup {","})>>, 1, -1, TRUE)>>,
       \* pounds?
         <<Lit("pound"), Rep(<<Lit("s")>>, 0, 1, TRUE)>>
       >>,
     INR |-> <<
       \* ₹[\d,]+(?:\.\d{2})?
         <<Lit("₹"), Rep(<<Cls(Digit \cup {","})>>, 1, -1, TRUE), Rep(<<Lit("."), Rep(<<Cls(Digit)>>, 2, 2, TRUE)>>, 0, 1, TRUE)>>,
       \* Rs\.?\s*[\d,]+
         <<Lit("Rs"), Rep(<<Lit(".")>>, 0, 1, TRUE), Rep(<<Cls(Space)>>, 0, -1, TRUE), Rep(<<Cls(Digit \cup {","})>>, 1, -1, TRUE)>>,
       \* INR\s*[\d,]+
         <<Lit("INR"), Rep(<<Cls(Space)>>, 0, -1, TRUE), Rep(<<Cls(Digit \cup {","})>>, 1, -1, TRUE)>>,
       \* rupees?
         <<Lit("rupee"), Rep(<<Lit("s")>>, 0, 1, TRUE)>>,
       \* [\d,]+\s*(?:crores?|lakhs?)
         <<Rep(<<Cls(Digit \cup {","})>>, 1, -1, TRUE), Rep(<<Cls(Space)>>, 0, -1, TRUE), Alt(<<<<Lit("crore"), Rep(<<Lit("s")>>, 0, 1, TRUE)>>, <<Lit("lakh"), Rep(<<Lit("s")>>, 0, 1, TRUE)>>>>)>>
       >>,
     EUR |-> <<
       \* €[\d,]+(?:\.\d{2})?
         <<Lit("€"), Rep(<<Cls(Digit \cup {","})>>, 1, -1, TRUE), Rep(<<Lit("."), Rep(<<Cls(Digit)>>, 2, 2, TRUE)>>, 0, 1, TRUE)>>,
       \* EUR\s*[\d,]+
         <<Lit("EUR"), Rep(<<Cls(Space)>>, 0, -1, TRUE), Rep(<<Cls(Digit \cup {","})>>, 1, -1, TRUE)>>,
       \* euros?
         <<Lit("euro"), Rep(<<Lit("s")>>, 0, 1, TRUE)>>
       >>]

\* dict order of self.currency_patterns
currency_order == <<"USD", "CAD", "GBP", "INR", "EUR">>

entity_patterns ==
    [companies |-> <<
       \* \b[A-Z][a-zA-Z\s&]+(?:Inc|LLC|Corp|Corporation|Company|Ltd|Limited|Pvt\.?\s*Ltd\.?|LLP)\b
         <<WordB, Cls(UpperAZ), Rep(<<Cls(LowerAZ \cup UpperAZ \cup Space \cup {"&"})>>, 1, -1, TRUE), Alt(<<<<Lit("Inc")>>, <<Lit("LLC")>>, <<Lit("Corp")>>, <<Lit("Corporation")>>, <<Lit("Company")>>, <<Lit("Ltd")>>, <<Lit("Limited")>>, <<Lit("Pvt"), Rep(<<Lit(".")>>, 0, 1, TRUE), Rep(<<Cls(Space)>>, 0, -1, TRUE), Lit("Ltd"), Rep(<<Lit(".")>>, 0, 1, TRUE)>>, <<Lit("LLP")>>>>), WordB>>,
       \* \b[A-Z][a-zA-Z\s&]+(?:GmbH|AG|SA|SAS|BV|AB|AS)\b
         <<WordB, Cls(UpperAZ), Rep(<<Cls(LowerAZ \cup UpperAZ \cup Space \cup {"&"})>>, 1, -1, TRUE), Alt(<<<<Lit("GmbH")>>, <<Lit("AG")>>, <<Lit("SA")>>, <<Lit("SAS")>>, <<Lit("BV")>>, <<Lit("AB")>>, <<Lit("AS")>>>>), WordB>>
       >>,
     people |-> <<
       \* \b(?:Mr\.?|Mrs\.?|Ms\.?|Dr\.?)\s+[A-Z][a-zA-Z]+(?:\s+[A-Z][a-zA-Z]+)*\b
         <<WordB, Alt(<<<<Lit("Mr"), Rep(<<Lit(".")>>, 0, 1, TRUE)>>, <<Lit("Mrs"), Rep(<<Lit(".")>>, 0, 1, TRUE)>>, <<Lit("Ms"), Rep(<<Lit(".")>>, 0, 1, TRUE)>>, <<Lit("Dr"), Rep(<<Lit(".")>>, 0, 1, TRUE)>>>>), Rep(<<Cls(Space)>>, 1, -1, TRUE), Cls(UpperAZ), Rep(<<Cls(LowerAZ \cup UpperAZ)>>, 1, -1, TRUE), Rep(<<Rep(<<Cls(Space)>>, 1, -1, TRUE), Cls(UpperAZ), Rep(<<Cls(LowerAZ \cup UpperAZ)>>, 1, -1, TRUE)>>, 0, -1, TRUE), WordB>>,
       \* \b[A-Z][a-zA-Z]+\s+[A-Z][a-zA-Z]+(?:\s+[A-Z][a-zA-Z]+)*\b
         <<WordB, Cls(UpperAZ), Rep(<<Cls(LowerAZ \cup UpperAZ)>>, 1, -1, TRUE), Rep(<<Cls(Space)>>, 1, -1, TRUE), Cls(UpperAZ), Rep(<<Cls(LowerAZ \cup UpperAZ)>>, 1, -1, TRUE), Rep(<<Rep(<<Cls(Space)>>, 1, -1, TRUE), Cls(UpperAZ), Rep(<<Cls(LowerAZ \cup UpperAZ)>>, 1, -1, TRUE)>>, 0, -1, TRUE), WordB>>
       >>]

date_patterns ==
    <<
    \* \b\d{1,2}[/-]\d{1,2}[/-]\d{2,4}\b
      <<WordB, Rep(<<Cls(Digit)>>, 1, 2, TRUE), Cls({"/", "-"}), Rep(<<Cls(Digit)>>, 1, 2, TRUE), Cls({"/", "-"}), Rep(<<Cls(Digit)>>, 2, 4, TRUE), WordB>>,
    \* \b\d{1,2}(?:st|nd|rd|th)?\s+(?:January|February|March|April|May|June|July|August|September|October|November|December)\s*,?\s*\d{4}\b
      <<WordB, Rep(<<Cls(Digit)>>, 1, 2, TRUE), Rep(<<Alt(<<<<Lit("st")>>, <<Lit("nd")>>, <<Lit("rd")>>, <<Lit("th")>>>>)>>, 0, 1, TRUE), Rep(<<Cls(Space)>>, 1, -1, TRUE), Alt(<<<<Lit("January")>>, <<Lit("February")>>, <<Lit("March")>>, <<Lit("April")>>, <<Lit("May")>>, <<Lit("June")>>, <<Lit("July")>>, <<Lit("August")>>, <<Lit("September")>>, <<Lit("October")>>, <<Lit("November")>>, <<Lit("December")>>>>), Rep(<<Cls(Space)>>, 0, -1, TRUE), Rep(<<Lit(",")>>, 0, 1, TRUE), Rep(<<Cls(Space)>>, 0, -1, TRUE), Rep(<<Cls(Digit)>>, 4, 4, TRUE), WordB>>,
    \* \b(?:January|February|March|April|May|June|July|August|September|October|November|December)\s+\d{1,2}(?:st|nd|rd|th)?\s*,?\s*\d{4}\b
      <<WordB, Alt(<<<<Lit("January")>>, <<Lit("February")>>, <<Lit("March")>>, <<Lit("April")>>, <<Lit("May")>>, <<Lit("June")>>, <<Lit("July")>>, <<Lit("August")>>, <<Lit("September")>>, <<Lit("October")>>, <<Lit("November")>>, <<Lit("December")>>>>), Rep(<<Cls(Space)>>, 1, -1, TRUE), Rep(<<Cls(Digit)>>, 1, 2, TRUE), Rep(<<Alt(<<<<Lit("st")>>, <<Lit("nd")>>, <<Lit("rd")>>, <<Lit("th")>>>>)>>, 0, 1, TRUE), Rep(<<Cls(Space)>>, 0, -1, TRUE), Rep(<<Lit(",")>>, 0, 1, TRUE), Rep(<<Cls(Space)>>, 0, -1, TRUE), Rep(<<Cls(Digit)>>, 4, 4, TRUE), WordB>>
    >>

jurisdiction_patterns ==
    <<
    \* courts?\s+(?:of|in|at)\s+([A-Za-z\s]+)(?:\s+shall\s+have\s+jurisdiction|jurisdiction)
      <<Lit("court"), Rep(<<Lit("s")>>, 0, 1, TRUE), Rep(<<Cls(Space)>>, 1, -1, TRUE), Alt(<<<<Lit("of")>>, <<Lit("in")>>, <<Lit("at")>>>>), Rep(<<Cls(Space)>>, 1, -1, TRUE), Grp(<<Rep(<<Cls(UpperAZ \cup LowerAZ \cup Space)>>, 1, -1, TRUE)>>), Alt(<<<<Rep(<<Cls(Space)>>, 1, -1, TRUE), Lit("shall"), Rep(<<Cls(Space)>>, 1, -1, TRUE), Lit("have"), Rep(<<Cls(Space)>>, 1, -1, TRUE), Lit("jurisdiction")>>, <<Lit("jurisdiction")>>>>)>>,
    \* governed\s+by\s+(?:the\s+)?laws?\s+of\s+([A-Za-z\s]+)
      <<Lit("governed"), Rep(<<Cls(Space)>>, 1, -1, TRUE), Lit("by"), Rep(<<Cls(Space)>>, 1, -1, TRUE), Rep(<<Lit("the"), Rep(<<Cls(Space)>>, 1, -1, TRUE)>>, 0, 1, TRUE), Lit("law"), Rep(<<Lit("s")>>, 0, 1, TRUE), Rep(<<Cls(Space)>>, 1, -1, TRUE), Lit("of"), Rep(<<Cls(Space)>>, 1, -1, TRUE), Grp(<<Rep(<<Cls(UpperAZ \cup LowerAZ \cup Space)>>, 1, -1, TRUE)>>)>>,
    \* subject\s+to\s+(?:the\s+)?jurisdiction\s+of\s+([A-Za-z\s]+)
      <<Lit("subject"), Rep(<<Cls(Space)>>, 1, -1, TRUE), Lit("to"), Rep(<<Cls(Space)>>, 1, -1, TRUE), Rep(<<Lit("the"), Rep(<<Cls(Space)>>, 1, -1, TRUE)>>, 0, 1, TRUE), Lit("jurisdiction"), Rep(<<Cls(Space)>>, 1, -1, TRUE), Lit("of"), Rep(<<Cls(Space)>>, 1, -1, TRUE), Grp(<<Rep(<<Cls(UpperAZ \cup LowerAZ \cup Space)>>, 1, -1, TRUE)>>)>>,
    \* exclusive\s+jurisdiction\s+of\s+([A-Za-z\s]+)
      <<Lit("exclusive"), Rep(<<Cls(Space)>>, 1, -1, TRUE), Lit("jurisdiction"), Rep(<<Cls(Space)>>, 1, -1, TRUE), Lit("of"), Rep(<<Cls(Space)>>, 1, -1, TRUE), Grp(<<Rep(<<Cls(UpperAZ \cup LowerAZ \cup Space)>>, 1, -1, TRUE)>>)>>,
    \* courts?\s+of\s+([A-Za-z\s]+)\s+shall\s+have\s+jurisdiction
      <<Lit("court"), Rep(<<Lit("s")>>, 0, 1, TRUE), Rep(<<Cls(Space)>>, 1, -1, TRUE), Lit("of"), Rep(<<Cls(Space)>>, 1, -1, TRUE), Grp(<<Rep(<<Cls(UpperAZ \cup LowerAZ \cup Space)>>, 1, -1, TRUE)>>), Rep(<<Cls(Space)>>, 1, -1, TRUE), Lit("shall"), Rep(<<Cls(Space)>>, 1, -1, TRUE), Lit("have"), Rep(<<Cls(Space)>>, 1, -1, TRUE), Lit("jurisdiction")>>
    >>

termination_patterns ==
    <<
    \* (?:terminate|termination).*?(?:upon|after|within)\s+(\d+\s+(?:days?|months?|years?))
      <<Lit("terminat"), Alt(<<<<Lit("e")>>, <<Lit("ion")>>>>), Rep(<<AnyCh>>, 0, -1, FALSE), Alt(<<<<Lit("upon")>>, <<Lit("after")>>, <<Lit("within")>>>>), Rep(<<Cls(Space)>>, 1, -1, TRUE), Grp(<<Rep(<<Cls(Digit)>>, 1, -1, TRUE), Rep(<<Cls(Space)>>, 1, -1, TRUE), Alt(<<<<Lit("day"), Rep(<<Lit("s")>>, 0, 1, TRUE)>>, <<Lit("month"), Rep(<<Lit("s")>>, 0, 1, TRUE)>>, <<Lit("year"), Rep(<<Lit("s")>>, 0, 1, TRUE)>>>>)>>)>>,
    \* (?:notice\s+of\s+)?termination.*?(\d+\s+(?:days?|months?|years?))
      <<Rep(<<Lit("notice"), Rep(<<Cls(Space)>>, 1, -1, TRUE), Lit("of"), Rep(<<Cls(Space)>>, 1, -1, TRUE)>>, 0, 1, TRUE), Lit("termination"), Rep(<<AnyCh>>, 0, -1, FALSE), Grp(<<Rep(<<Cls(Digit)>>, 1, -1, TRUE), Rep(<<Cls(Space)>>, 1, -1, TRUE), Alt(<<<<Lit("day"), Rep(<<Lit("s")>>, 0, 1, TRUE)>>, <<Lit("month"), Rep(<<Lit("s")>>, 0, 1, TRUE)>>, <<Lit("year"), Rep(<<Lit("s")>>, 0, 1, TRUE)>>>>)>>)>>,
    \* either\s+party\s+may\s+terminate.*?(\d+\s+(?:days?|months?|years?))
      <<Lit("either"), Rep(<<Cls(Space)>>, 1, -1, TRUE), Lit("party"), Rep(<<Cls(Space)>>, 1, -1, TRUE), Lit("may"), Rep(<<Cls(Space)>>, 1, -1, TRUE), Lit("terminate"), Rep(<<AnyCh>>, 0, -1, FALSE), Grp(<<Rep(<<Cls(Digit)>>, 1, -1, TRUE), Rep(<<Cls(Space)>>, 1, -1, TRUE), Alt(<<<<Lit("day"), Rep(<<Lit("s")>>, 0, 1, TRUE)>>, <<Lit("month"), Rep(<<Lit("s")>>, 0, 1, TRUE)>>, <<Lit("year"), Rep(<<Lit("s")>>, 0, 1, TRUE)>>>>)>>)>>,
    \* contract\s+(?:shall\s+)?terminate.*?(\d+\s+(?:days?|months?|years?))
      <<Lit("contract"), Rep(<<Cls(Space)>>, 1, -1, TRUE), Rep(<<Lit("shall"), Rep(<<Cls(Space)>>, 1, -1, TRUE)>>, 0, 1, TRUE), Lit("terminate"), Rep(<<AnyCh>>, 0, -1, FALSE), Grp(<<Rep(<<Cls(Digit)>>, 1, -1, TRUE), Rep(<<Cls(Space)>>, 1, -1, TRUE), Alt(<<<<Lit("day"), Rep(<<Lit("s")>>, 0, 1, TRUE)>>, <<Lit("month"), Rep(<<Lit("s")>>, 0, 1, TRUE)>>, <<Lit("year"), Rep(<<Lit("s")>>, 0, 1, TRUE)>>>>)>>)>>
    >>

payment_patterns ==
    <<
    \* payment.*?(?:due|payable).*?(\d+\s+(?:days?|months?))
      <<Lit("payment"), Rep(<<AnyCh>>, 0, -1, FALSE), Alt(<<<<Lit("due")>>, <<Lit("payable")>>>>), Rep(<<AnyCh>>, 0, -1, FALSE), Grp(<<Rep(<<Cls(Digit)>>, 1, -1, TRUE), Rep(<<Cls(Space)>>, 1, -1, TRUE), Alt(<<<<Lit("day"), Rep(<<Lit("s")>>, 0, 1, TRUE)>>, <<Lit("month"), Rep(<<Lit("s")>>, 0, 1, TRUE)>>>>)>>)>>,
    \* invoice.*?(?:due|payable).*?(\d+\s+(?:days?|months?))
      <<Lit("invoice"), Rep(<<AnyCh>>, 0, -1, FALSE), Alt(<<<<Lit("due")>>, <<Lit("payable")>>>>), Rep(<<AnyCh>>, 0, -1, FALSE), Grp(<<Rep(<<Cls(Digit)>>, 1, -1, TRUE), Rep(<<Cls(Space)>>, 1, -1, TRUE), Alt(<<<<Lit("day"), Rep(<<Lit("s")>>, 0, 1, TRUE)>>, <<Lit("month"), Rep(<<Lit("s")>>, 0, 1, TRUE)>>>>)>>)>>,
    \* (?:net\s+)?(\d+)\s+days?
      <<Rep(<<Lit("net"), Rep(<<Cls(Space)>>, 1, -1, TRUE)>>, 0, 1, TRUE), Grp(<<Rep(<<Cls(Digit)>>, 1, -1, TRUE)>>), Rep(<<Cls(Space)>>, 1, -1, TRUE), Lit("day"), Rep(<<Lit("s")>>, 0, 1, TRUE)>>,
    \* payment\s+terms?.*?(\d+\s+(?:days?|months?))
      <<Lit("payment"), Rep(<<Cls(Space)>>, 1, -1, TRUE), Lit("term"), Rep(<<Lit("s")>>, 0, 1, TRUE), Rep(<<AnyCh>>, 0, -1, FALSE), Grp(<<Rep(<<Cls(Digit)>>, 1, -1, TRUE), Rep(<<Cls(Space)>>, 1, -1, TRUE), Alt(<<<<Lit("day"), Rep(<<Lit("s")>>, 0, 1, TRUE)>>, <<Lit("month"), Rep(<<Lit("s")>>, 0, 1, TRUE)>>>>)>>)>>
    >>

(***************************************************************************)
(* LegalQAEngine (modules/qa_engine.py)                                    *)
(***************************************************************************)
\* a confidence is a number of hundredths: 0.9 is 90
QAResult(question, answer, confidence, context, sources) ==
    [question |-> question, answer |-> answer, confidence |-> confidence,
     context |-> context, sources |-> sources]

RECURSIVE FindAllIn(_, _, _)
FindAllIn(patterns, k, cx) ==
    IF k > Len(patterns) THEN <<>>
    ELSE FindIn(patterns[k], cx) \o FindAllIn(patterns, k + 1, cx)

\* for pattern in patterns: for match in re.finditer(pattern, text, flags)
FindAll(patterns, text, ic) == FindAllIn(patterns, 1, Subject(text, ic))

\* text[max(0, match.start() - width):min(len(text), match.end() + width)].strip()
Context(text, m, width) ==
    Strip(Slice(text, Max(1, m.s - width), Min(Len(text), m.e - 1 + width)))

\* contexts[0] if contexts else ""
FirstContext(text, ms, width) == IF Len(ms) > 0 THEN Context(text, ms[1], width) ELSE ""

Groups0(text, ms) == [k \in 1..Len(ms) |-> Group0(text, ms[k])]

Groups0Stripped(text, ms) == [k \in 1..Len(ms) |-> Strip(Group0(text, ms[k]))]

\* match.group(1).strip(); every pattern it is used with has one group
Groups1Stripped(text, ms) == [k \in 1..Len(ms) |-> Strip(Group1(text, ms[k]))]

RECURSIVE Join(_, _)
\* sep.join(xs)
Join(xs, sep) ==
    IF Len(xs) = 0 THEN ""
    ELSE IF Len(xs) = 1 THEN xs[1]
    ELSE xs[1] \o sep \o Join(Tail(xs), sep)

RECURSIVE Perms(_)
Perms(S) ==
    IF S = {} THEN {<<>>}
    ELSE UNION {{<<x>> \o p : p \in Perms(S \ {x})} : x \in S}

\* list(set(xs)): the distinct values in an order the hash seed decides
ListOfSet(xs) == Perms(Range(xs))

\* f"{prefix}{', '.join(unique[:5])}" and the " and N more" suffix
CappedAnswer(prefix, unique) ==
    prefix \o Join(SubSeq(unique, 1, Min(5, Len(unique))), ", ")
        \o (IF Len(unique) > 5 THEN " and " \o ToString(Len(unique) - 5) \o " more" ELSE "")

RECURSIVE AllCurrencyPatterns(_)
\* for currency_patterns in self.currency_patterns.values(): patterns.extend(...)
AllCurrencyPatterns(k) ==
    IF k > Len(currency_order) THEN <<>>
    ELSE currency_patterns[currency_order[k]] \o AllCurrencyPatterns(k + 1)

\* the patterns _answer_money_question selects for a preference
money_patterns(country_preference) ==
    IF country_preference \in DOMAIN currency_patterns
    THEN currency_patterns[country_preference]
    ELSE AllCurrencyPatterns(1)

\* the money extractor with the found confidence on its not-found result
answer_money_question_flat(text, question, country_preference) ==
    LET ms == FindAll(money_patterns(country_preference), text, TRUE)
        money_matches == Groups0(text, ms)
    IN  IF Len(money_matches) > 0
        THEN {QAResult(question, CappedAnswer("Found monetary amounts: ", unique_amounts),
                       90, FirstContext(text, ms, 100), unique_amounts) :
                  unique_amounts \in ListOfSet(money_matches)}
        ELSE {QAResult(question, "No monetary amounts found in the document.", 90, "", <<>>)}

\* each extractor yields the set of results it can return: one for every
\* order list(set(...)) can produce
answer_money_question(text, question, country_preference) ==
    LET ms == FindAll(money_patterns(country_preference), text, TRUE)
        money_matches == Groups0(text, ms)
    IN  IF Len(money_matches) > 0
        THEN {QAResult(question, CappedAnswer("Found monetary amounts: ", unique_amounts),
                       90, FirstContext(text, ms, 100), unique_amounts) :
                  unique_amounts \in ListOfSet(money_matches)}
        ELSE {QAResult(question, "No monetary amounts found in the document.", 30, "", <<>>)}

people_words == {"person", "individual", "signatory", "representative"}

answer_party_question(text, question) ==
    LET cms == FindAll(entity_patterns.companies, text, FALSE)
        companies == Groups0Stripped(text, cms)
        people == IF \E word \in people_words : Contains(Lower(question), word)
                  THEN Groups0Stripped(text, FindAll(entity_patterns.people, text, FALSE))
                  ELSE <<>>
    IN  IF Len(companies \o people) > 0
        THEN {QAResult(question, CappedAnswer("Found parties: ", all_parties),
                       85, FirstContext(text, cms, 50), all_parties) :
                  all_parties \in ListOfSet(companies \o people)}
        ELSE {QAResult(question, "No clear parties or organizations identified in the document.",
                       30, "", <<>>)}

answer_date_question(text, question) ==
    LET ms == FindAll(date_patterns, text, TRUE)
        dates == Groups0(text, ms)
    IN  IF Len(dates) > 0
        THEN {QAResult(question, CappedAnswer("Found important dates: ", unique_dates),
                       80, FirstContext(text, ms, 80), unique_dates) :
                  unique_dates \in ListOfSet(dates)}
        ELSE {QAResult(question, "No specific dates found in the document.", 30, "", <<>>)}

answer_jurisdiction_question(text, question) ==
    LET ms == FindAll(jurisdiction_patterns, text, TRUE)
        jurisdictions == Groups1Stripped(text, ms)
    IN  IF Len(jurisdictions) > 0
        THEN {QAResult(question,
                       "Found jurisdiction/governing law: " \o Join(unique_jurisdictions, ", "),
                       90, FirstContext(text, ms, 50), unique_jurisdictions) :
                  unique_jurisdictions \in ListOfSet(jurisdictions)}
        ELSE {QAResult(question, "No clear jurisdiction or governing law clauses found.",
                       30, "", <<>>)}

answer_termination_question(text, question) ==
    LET ms == FindAll(termination_patterns, text, TRUE)
        termination_terms == Groups1Stripped(text, ms)
    IN  IF Len(termination_terms) > 0
        THEN {QAResult(question, "Found termination terms: " \o Join(unique_terms, ", "),
                       85, FirstContext(text, ms, 100), unique_terms) :
                  unique_terms \in ListOfSet(termination_terms)}
        ELSE {QAResult(question, "No specific termination clauses found.", 30, "", <<>>)}

answer_payment_question(text, question) ==
    LET ms == FindAll(payment_patterns, text, TRUE)
        payment_terms == Groups1Stripped(text, ms)
    IN  IF Len(payment_terms) > 0
        THEN {QAResult(question, "Found payment terms: " \o Join(unique_terms, ", "),
                       85, FirstContext(text, ms, 100), unique_terms) :
                  unique_terms \in ListOfSet(payment_terms)}
        ELSE {QAResult(question, "No specific payment terms found.", 30, "", <<>>)}

\* re.findall(r'\b\w+\b', ...)
word_pattern == <<WordB, Rep(<<Cls(WordCh)>>, 1, -1, TRUE), WordB>>

\* re.split(r'[.!?]+', ...)
sentence_end_pattern == <<Rep(<<Cls({".", "!", "?"})>>, 1, -1, TRUE)>>

\* re.split(pattern, text) for a pattern without groups
ReSplit(re, text) ==
    LET ms == FindIter(re, text, FALSE)
    IN  [k \in 1..(Len(ms) + 1) |->
            Slice(text, IF k = 1 THEN 1 ELSE ms[k - 1].e,
                        IF k = Len(ms) + 1 THEN Len(text) ELSE ms[k].s - 1)]

\* sum(1 for word in question_words if word in sentence_lower and len(word) > 3)
KeywordMatches(question_words, sentence_lower) ==
    Cardinality({k \in 1..Len(question_words) :
                    Contains(sentence_lower, question_words[k]) /\ Len(question_words[k]) > 3})

\* the last of the longest
LongestFirst_last_on_ties(xs) ==
    xs[CHOOSE i \in 1..Len(xs) :
          /\ \A j \in 1..Len(xs) : Len(xs[j]) <= Len(xs[i])
          /\ \A j \in (i + 1)..Len(xs) : Len(xs[j]) < Len(xs[i])]

\* max(xs, key=len): the first of the longest
LongestFirst(xs) ==
    xs[CHOOSE i \in 1..Len(xs) :
          /\ \A j \in 1..Len(xs) : Len(xs[j]) <= Len(xs[i])
          /\ \A j \in 1..(i - 1) : Len(xs[j]) < Len(xs[i])]

general_not_found ==
    "I couldn't find specific information to answer that question. Please try rephrasing or ask about parties, amounts, dates, or jurisdiction."

\* the general fallback giving a found sentence the confidence 0.4
answer_general_question_unsure(text, question) ==
    LET question_lower == Lower(question)
        question_words == Groups0(question_lower, FindIter(word_pattern, question_lower, FALSE))
        sentences == ReSplit(sentence_end_pattern, text)
        IsRelevant(sentence) == KeywordMatches(question_words, Lower(sentence)) >= 2
        relevant == SelectSeq(sentences, IsRelevant)
        relevant_sentences == [k \in 1..Len(relevant) |-> Strip(relevant[k])]
        best_sentence == LongestFirst(relevant_sentences)
    IN  IF Len(relevant_sentences) > 0
        THEN {QAResult(question,
                       IF Len(best_sentence) > 300
                       THEN SubSeq(best_sentence, 1, 300) \o "..." ELSE best_sentence,
                       40, best_sentence, <<best_sentence>>)}
        ELSE {QAResult(question, general_not_found, 20, "", <<>>)}

answer_general_question(text, question) ==
    LET question_lower == Lower(question)
        question_words == Groups0(question_lower, FindIter(word_pattern, question_lower, FALSE))
        sentences == ReSplit(sentence_end_pattern, text)
        IsRelevant(sentence) == KeywordMatches(question_words, Lower(sentence)) >= 2
        relevant == SelectSeq(sentences, IsRelevant)
        relevant_sentences == [k \in 1..Len(relevant) |-> Strip(relevant[k])]
        best_sentence == LongestFirst(relevant_sentences)
    IN  IF Len(relevant_sentences) > 0
        THEN {QAResult(question,
                       IF Len(best_sentence) > 300
                       THEN SubSeq(best_sentence, 1, 300) \o "..." ELSE best_sentence,
                       60, best_sentence, <<best_sentence>>)}
        ELSE {QAResult(question, general_not_found, 20, "", <<>>)}

\* the chain with the payment rule tested before the money rule
routing_rules_payment_first == <<
    [words |-> {"payment", "pay", "invoice", "billing"}, extractor |-> "payment"],
    [words |-> {"value", "amount", "price", "cost", "money", "payment"}, extractor |-> "money"],
    [words |-> {"party", "parties", "who", "company", "organization"}, extractor |-> "party"],
    [words |-> {"date", "when", "expire", "expiry", "term", "duration"}, extractor |-> "date"],
    [words |-> {"jurisdiction", "court", "law", "governing", "legal"}, extractor |-> "jurisdiction"],
    [words |-> {"terminate", "termination", "end", "cancel"}, extractor |-> "termination"]
    >>

\* the if/elif chain of answer_question: keyword lists in the order tested
routing_rules == <<
    [words |-> {"value", "amount", "price", "cost", "money", "payment"}, extractor |-> "money"],
    [words |-> {"party", "parties", "who", "company", "organization"}, extractor |-> "party"],
    [words |-> {"date", "when", "expire", "expiry", "term", "duration"}, extractor |-> "date"],
    [words |-> {"jurisdiction", "court", "law", "governing", "legal"}, extractor |-> "jurisdiction"],
    [words |-> {"terminate", "termination", "end", "cancel"}, extractor |-> "termination"],
    [words |-> {"payment", "pay", "invoice", "billing"}, extractor |-> "payment"]
    >>

\* any(word in question_lower for word in words)
HasKeyword(question_lower, words) == \E word \in words : Contains(question_lower, word)

RECURSIVE RouteFrom(_, _)
RouteFrom(question_lower, k) ==
    IF k > Len(routing_rules) THEN "general"
    ELSE IF HasKeyword(question_lower, routing_rules[k].words)
         THEN routing_rules[k].extractor
    ELSE RouteFrom(question_lower, k + 1)

\* the extractor answer_question dispatches a question to
route(question) == RouteFrom(Lower(question), 1)

\* the return statement of the branch of answer_question that calls ex
dispatch(ex, text, question, country_preference) ==
    CASE ex = "money" -> answer_money_question(text, question, country_preference)
      [] ex = "party" -> answer_party_question(text, question)
      [] ex = "date" -> answer_date_question(text, question)
      [] ex = "jurisdiction" -> answer_jurisdiction_question(text, question)
      [] ex = "termination" -> answer_termination_question(text, question)
      [] ex = "payment" -> answer_payment_question(text, question)
      [] OTHER -> answer_general_question(text, question)

\* answer_question(self, question, country_preference) on self.document_text
answer_question(text, question, country_preference) ==
    dispatch(route(question), text, question, country_preference)

\* set_document that keeps the stored entities when none are given
set_document_keeping_entities(self, text, arg) ==
    [document_text |-> text,
     entities |-> IF arg.given /\ arg.value # {} THEN arg.value ELSE self.entities]

\* set_document(self, text, entities): the engine state it leaves;
\* arg.given is FALSE when the entities argument is omitted (None)
set_document(self, text, arg) ==
    [document_text |-> text,
     entities |-> IF arg.given /\ arg.value # {} THEN arg.value ELSE {}]

\* self.risk_patterns in dict order; src is the pattern string, re its parse
risk_patterns == <<
     [category |-> "liability",
      patterns |-> <<
         [src |-> "\\bunlimited\\s+liability\\b",
          re |-> <<WordB, Lit("unlimited"), Rep(<<Cls(Space)>>, 1, -1, TRUE), Lit("liability"), WordB>>],
         [src |-> "\\bpersonal\\s+guarantee\\b",
          re |-> <<WordB, Lit("personal"), Rep(<<Cls(Space)>>, 1, -1, TRUE), Lit("guarantee"), WordB>>],
         [src |-> "\\bjoint\\s+and\\s+several\\s+liability\\b",
          re |-> <<WordB, Lit("joint"), Rep(<<Cls(Space)>>, 1, -1, TRUE), Lit("and"), Rep(<<Cls(Space)>>, 1, -1, TRUE), Lit("several"), Rep(<<Cls(Space)>>, 1, -1, TRUE), Lit("liability"), WordB>>],
         [src |-> "\\bindemnif(?:y|ication)\\b.*\\bfrom\\s+and\\s+against\\s+all\\b",
          re |-> <<WordB, Lit("indemnif"), Alt(<<<<Lit("y")>>, <<Lit("ication")>>>>), WordB, Rep(<<AnyCh>>, 0, -1, TRUE), WordB, Lit("from"), Rep(<<Cls(Space)>>, 1, -1, TRUE), Lit("and"), Rep(<<Cls(Space)>>, 1, -1, TRUE), Lit("against"), Rep(<<Cls(Space)>>, 1, -1, TRUE), Lit("all"), WordB>>],
         [src |-> "\\bhold\\s+harmless\\b",
          re |-> <<WordB, Lit("hold"), Rep(<<Cls(Space)>>, 1, -1, TRUE), Lit("harmless"), WordB>>],
         [src |-> "\\bno\\s+limitation\\s+of\\s+liability\\b",
          re |-> <<WordB, Lit("no"), Rep(<<Cls(Space)>>, 1, -1, TRUE), Lit("limitation"), Rep(<<Cls(Space)>>, 1, -1, TRUE), Lit("of"), Rep(<<Cls(Space)>>, 1, -1, TRUE), Lit("liability"), WordB>>]
      >>,
      explanations |-> <<
         <<"unlimited liability",
           "Unlimited liability exposes parties to potentially catastrophic financial losses without caps or limits.">>,
         <<"personal guarantee",
           "Personal guarantees put individual assets at risk beyond business assets.">>,
         <<"joint and several liability",
           "Joint and several liability makes each party responsible for the full amount of damages.">>
      >>],
     [category |-> "financial",
      patterns |-> <<
         [src |-> "\\bliquidated\\s+damages\\b",
          re |-> <<WordB, Lit("liquidated"), Rep(<<Cls(Space)>>, 1, -1, TRUE), Lit("damages"), WordB>>],
         [src |-> "\\bpenalty\\b(?!\\s+clause)",
          re |-> <<WordB, Lit("penalty"), WordB, NegLook(<<Rep(<<Cls(Space)>>, 1, -1, TRUE), Lit("clause")>>)>>],
         [src |-> "\\binterest\\s+rate\\b.*\\b(?:per\\s+month|monthly)\\b",
          re |-> <<WordB, Lit("interest"), Rep(<<Cls(Space)>>, 1, -1, TRUE), Lit("rate"), WordB, Rep(<<AnyCh>>, 0, -1, TRUE), WordB, Alt(<<<<Lit("per"), Rep(<<Cls(Space)>>, 1, -1, TRUE), Lit("month")>>, <<Lit("monthly")>>>>), WordB>>],
         [src |-> "\\bimmediate\\s+payment\\b",
          re |-> <<WordB, Lit("immediate"), Rep(<<Cls(Space)>>, 1, -1, TRUE), Lit("payment"), WordB>>],
         [src |-> "\\bno\\s+right\\s+to\\s+offset\\b",
          re |-> <<WordB, Lit("no"), Rep(<<Cls(Space)>>, 1, -1, TRUE), Lit("right"), Rep(<<Cls(Space)>>, 1, -1, TRUE), Lit("to"), Rep(<<Cls(Space)>>, 1, -1, TRUE), Lit("offset"), WordB>>],
         [src |-> "\\bpayment\\s+in\\s+advance\\b",
          re |-> <<WordB, Lit("payment"), Rep(<<Cls(Space)>>, 1, -1, TRUE), Lit("in"), Rep(<<Cls(Space)>>, 1, -1, TRUE), Lit("advance"), WordB>>]
      >>,
      explanations |-> <<
         <<"liquidated damages",
           "Liquidated damages clauses can result in significant financial penalties.">>,
         <<"penalty",
           "Penalty clauses may impose harsh financial consequences for minor breaches.">>,
         <<"high interest",
           "Excessive interest rates can create unsustainable financial burdens.">>
      >>],
     [category |-> "termination",
      patterns |-> <<
         [src |-> "\\bterminate\\s+(?:immediately|without\\s+notice)\\b",
          re |-> <<WordB, Lit("terminate"), Rep(<<Cls(Space)>>, 1, -1, TRUE), Alt(<<<<Lit("immediately")>>, <<Lit("without"), Rep(<<Cls(Space)>>, 1, -1, TRUE), Lit("notice")>>>>), WordB>>],
         [src |-> "\\bno\\s+cure\\s+period\\b",
          re |-> <<WordB, Lit("no"), Rep(<<Cls(Space)>>, 1, -1, TRUE), Lit("cure"), Rep(<<Cls(Space)>>, 1, -1, TRUE), Lit("period"), WordB>>],
         [src |-> "\\btermination\\s+for\\s+convenience\\b",
          re |-> <<WordB, Lit("termination"), Rep(<<Cls(Space)>>, 1, -1, TRUE), Lit("for"), Rep(<<Cls(Space)>>, 1, -1, TRUE), Lit("convenience"), WordB>>],
         [src |-> "\\bimmediate\\s+termination\\b",
          re |-> <<WordB, Lit("immediate"), Rep(<<Cls(Space)>>, 1, -1, TRUE), Lit("termination"), WordB>>],
         [src |-> "\\bterminate\\s+at\\s+will\\b",
          re |-> <<WordB, Lit("terminate"), Rep(<<Cls(Space)>>, 1, -1, TRUE), Lit("at"), Rep(<<Cls(Space)>>, 1, -1, TRUE), Lit("will"), WordB>>]
      >>,
      explanations |-> <<
         <<"immediate termination",
           "Immediate termination clauses provide no opportunity to cure breaches.">>,
         <<"termination for convenience",
           "Termination for convenience allows unilateral contract termination without cause.">>,
         <<"no cure period",
           "Absence of cure periods prevents parties from correcting minor violations.">>
      >>],
     [category |-> "intellectual_property",
      patterns |-> <<
         [src |-> "\\bassignment\\s+of\\s+(?:all\\s+)?(?:intellectual\\s+property|ip)\\b",
          re |-> <<WordB, Lit("assignment"), Rep(<<Cls(Space)>>, 1, -1, TRUE), Lit("of"), Rep(<<Cls(Space)>>, 1, -1, TRUE), Rep(<<Lit("all"), Rep(<<Cls(Space)>>, 1, -1, TRUE)>>, 0, 1, TRUE), Lit("i"), Alt(<<<<Lit("ntellectual"), Rep(<<Cls(Space)>>, 1, -1, TRUE), Lit("property")>>, <<Lit("p")>>>>), WordB>>],
         [src |-> "\\bwork\\s+for\\s+hire\\b",
          re |-> <<WordB, Lit("work"), Rep(<<Cls(Space)>>, 1, -1, TRUE), Lit("for"), Rep(<<Cls(Space)>>, 1, -1, TRUE), Lit("hire"), WordB>>],
         [src |-> "\\bexclusive\\s+license\\b",
          re |-> <<WordB, Lit("exclusive"), Rep(<<Cls(Space)>>, 1, -1, TRUE), Lit("license"), WordB>>],
         [src |-> "\\btrade\\s+secrets?\\b.*\\bperpetual\\b",
          re |-> <<WordB, Lit("trade"), Rep(<<Cls(Space)>>, 1, -1, TRUE), Lit("secret"), Rep(<<Lit("s")>>, 0, 1, TRUE), WordB, Rep(<<AnyCh>>, 0, -1, TRUE), WordB, Lit("perpetual"), WordB>>],
         [src |-> "\\bnon-compete\\b.*\\b(?:worldwide|global)\\b",
          re |-> <<WordB, Lit("non-compete"), WordB, Rep(<<AnyCh>>, 0, -1, TRUE), WordB, Alt(<<<<Lit("worldwide")>>, <<Lit("global")>>>>), WordB>>]
      >>,
      explanations |-> <<
         <<"ip assignment",
           "Broad IP assignment clauses may transfer valuable intellectual property rights.">>,
         <<"work for hire",
           "Work for hire provisions can result in loss of ownership of created works.">>,
         <<"exclusive license",
           "Exclusive licenses may prevent use of own intellectual property.">>
      >>],
     [category |-> "compliance",
      patterns |-> <<
         [src |-> "\\bstrict\\s+compliance\\b",
          re |-> <<WordB, Lit("strict"), Rep(<<Cls(Space)>>, 1, -1, TRUE), Lit("compliance"), WordB>>],
         [src |-> "\\bmaterial\\s+adverse\\s+change\\b",
          re |-> <<WordB, Lit("material"), Rep(<<Cls(Space)>>, 1, -1, TRUE), Lit("adverse"), Rep(<<Cls(Space)>>, 1, -1, TRUE), Lit("change"), WordB>>],
         [src |-> "\\brepresentations\\s+and\\s+warranties\\b.*\\bsurvive\\b",
          re |-> <<WordB, Lit("representations"), Rep(<<Cls(Space)>>, 1, -1, TRUE), Lit("and"), Rep(<<Cls(Space)>>, 1, -1, TRUE), Lit("warranties"), WordB, Rep(<<AnyCh>>, 0, -1, TRUE), WordB, Lit("survive"), WordB>>],
         [src |-> "\\bcontinuing\\s+representations\\b",
          re |-> <<WordB, Lit("continuing"), Rep(<<Cls(Space)>>, 1, -1, TRUE), Lit("representations"), WordB>>]
      >>,
      explanations |-> <<
         <<"strict compliance",
           "Strict compliance requirements leave no room for minor deviations.">>,
         <<"material adverse change",
           "Material adverse change clauses can trigger contract termination.">>,
         <<"surviving warranties",
           "Surviving warranties extend liability beyond contract termination.">>
      >>]
    >>

\* self.standard_clauses in dict order
standard_clauses == <<
    [clause_type |-> "limitation_of_liability", keywords |-> <<"limitation of liability", "liability cap", "damages limitation">>],
    [clause_type |-> "force_majeure", keywords |-> <<"force majeure", "act of god", "unforeseeable circumstances">>],
    [clause_type |-> "confidentiality", keywords |-> <<"confidentiality", "non-disclosure", "proprietary information">>],
    [clause_type |-> "dispute_resolution", keywords |-> <<"dispute resolution", "arbitration", "mediation", "governing law">>],
    [clause_type |-> "termination_notice", keywords |-> <<"termination notice", "notice period", "advance notice">>],
    [clause_type |-> "intellectual_property", keywords |-> <<"intellectual property", "ip rights", "proprietary rights">>]
    >>

\* self.mitigation_strategies, keyed by category
mitigation_strategies ==
    [liability |-> <<
        "Add liability caps to limit maximum exposure",
        "Include mutual indemnification clauses",
        "Negotiate carve-outs for gross negligence and willful misconduct",
        "Consider insurance requirements">>,
     financial |-> <<
        "Negotiate payment terms and schedules",
        "Add right to offset provisions",
        "Include dispute resolution for payment disputes",
        "Consider escrow arrangements for large payments">>,
     termination |-> <<
        "Add cure periods for non-material breaches",
        "Negotiate termination notice requirements",
        "Include survival clauses for important provisions",
        "Define material breach clearly">>]

(***************************************************************************)
(* EnhancedRiskDetector (modules/enhanced_risk_detection.py)               *)
(***************************************************************************)
RECURSIVE GCD(_, _)
GCD(a, b) == IF b = 0 THEN a ELSE GCD(b, a % b)

\* the real number n/d, d > 0, in lowest terms
Frac(n, d) == LET g == GCD(n, d) IN [n |-> n \div g, d |-> d \div g]

FracLeq(a, b) == a.n * b.d <= b.n * a.d

\* a >= k for an integer k
FracGeq(a, k) == a.n >= k * a.d

\* min(a, b)
FracMin(a, b) == IF FracLeq(a, b) THEN a ELSE b

\* the k-th smallest element of a set of integers
Kth(S, k) == CHOOSE x \in S : Cardinality({y \in S : y < x}) = k - 1

SentenceFinal == {".", "!", "?"}

\* str.rstrip() of a sentence that is not all whitespace
RStrip(s) ==
    LET keep == {i \in 1..Len(s) : CharAt(s, i) \notin Space}
    IN  IF keep = {} THEN s
        ELSE SubSeq(s, 1, CHOOSE i \in keep : \A j \in keep : i >= j)

\* [sent.text for sent in self.nlp(text).sents]: the segmenter is spaCy's; a
\* sentence ends after sentence-final punctuation that is followed by
\* whitespace and more text, and its text excludes the whitespace after it
Sentences(text) ==
    LET n == Len(text)
        ends == {j \in 1..(n - 1) :
                    /\ CharAt(text, j) \in SentenceFinal
                    /\ CharAt(text, j + 1) \in Space
                    /\ \E k \in (j + 2)..n : CharAt(text, k) \notin Space}
        NextStart(j) == CHOOSE k \in (j + 2)..n :
                            /\ CharAt(text, k) \notin Space
                            /\ \A q \in (j + 1)..(k - 1) : CharAt(text, q) \in Space
        starts == IF n = 0 THEN {} ELSE {1} \cup {NextStart(j) : j \in ends}
        EndOf(s) == LET later == {j \in ends : j >= s}
                    IN  IF later = {} THEN 0
                        ELSE CHOOSE j \in later : \A q \in later : j <= q
        TextOf(s) == IF EndOf(s) = 0 THEN RStrip(SubSeq(text, s, n))
                     ELSE SubSeq(text, s, EndOf(s))
    IN  [k \in 1..Cardinality(starts) |-> TextOf(Kth(starts, k))]

high_risk_indicators ==
    {"unlimited", "immediate", "no cure", "personal guarantee",
     "joint and several", "liquidated damages"}

critical_risk_indicators ==
    {"unlimited liability", "personal guarantee", "immediate termination"}

medium_risk_words == {"penalty", "forfeit", "breach"}

\* _calculate_risk_level with the high tier tested before the critical tier
calculate_risk_level_high_first(pattern, context) ==
    LET pattern_lower == Lower(pattern)
        context_lower == Lower(context)
    IN  IF \E indicator \in high_risk_indicators :
               Contains(pattern_lower, indicator) \/ Contains(context_lower, indicator)
        THEN "high"
        ELSE IF \E indicator \in critical_risk_indicators :
               Contains(pattern_lower, indicator) \/ Contains(context_lower, indicator)
        THEN "critical"
        ELSE IF \E word \in medium_risk_words : Contains(pattern_lower, word)
        THEN "medium"
        ELSE "low"

\* _calculate_risk_level(pattern, context)
calculate_risk_level(pattern, context) ==
    LET pattern_lower == Lower(pattern)
        context_lower == Lower(context)
    IN  IF \E indicator \in critical_risk_indicators :
               Contains(pattern_lower, indicator) \/ Contains(context_lower, indicator)
        THEN "critical"
        ELSE IF \E indicator \in high_risk_indicators :
               Contains(pattern_lower, indicator) \/ Contains(context_lower, indicator)
        THEN "high"
        ELSE IF \E word \in medium_risk_words : Contains(pattern_lower, word)
        THEN "medium"
        ELSE "low"

default_explanations ==
    [liability |-> "This clause may expose parties to significant liability risks.",
     financial |-> "This provision could result in unexpected financial obligations.",
     termination |-> "This termination clause may be unfavorable to one party.",
     intellectual_property |-> "This clause affects intellectual property rights.",
     compliance |-> "This provision imposes strict compliance requirements."]

\* _get_risk_explanation(pattern, category, data)
get_risk_explanation(pattern, category, data) ==
    LET explanations == data.explanations
        hits == {k \in 1..Len(explanations) : Contains(Lower(pattern), explanations[k][1])}
    IN  IF hits # {} THEN explanations[CHOOSE k \in hits : \A j \in hits : k <= j][2]
        ELSE IF category \in DOMAIN default_explanations THEN default_explanations[category]
        ELSE "This clause presents potential risks."

\* self.mitigation_strategies.get(category, [])
MitigationFor(category) ==
    IF category \in DOMAIN mitigation_strategies THEN mitigation_strategies[category] ELSE <<>>

RiskFactor(text, category, level, confidence, explanation, clause_context, recommendations) ==
    [text |-> text, category |-> category, level |-> level, confidence |-> confidence,
     explanation |-> explanation, clause_context |-> clause_context,
     recommendations |-> recommendations, legal_precedents |-> <<>>,
     mitigation_strategies |-> recommendations]

\* the sentence analyze_semantic_risks takes for a match: the first whose
\* span, located by text.find(sent), contains the span of the match; "" if none
MatchSentence(text, sentences, m) ==
    LET hits == {i \in 1..Len(sentences) :
                    /\ m.s >= Find(text, sentences[i])
                    /\ m.e <= Find(text, sentences[i]) + Len(sentences[i])}
    IN  IF hits = {} THEN "" ELSE sentences[CHOOSE i \in hits : \A j \in hits : i <= j]

RECURSIVE FactorsOfMatches(_, _, _, _, _, _)
\* for match in matches: ... risk_factors.append(risk_factor)
FactorsOfMatches(text, sentences, data, p, ms, k) ==
    IF k > Len(ms) THEN <<>>
    ELSE LET match_sentence == MatchSentence(text, sentences, ms[k])
             found == IF match_sentence # ""
                      THEN <<RiskFactor(Group0(text, ms[k]), data.category,
                                calculate_risk_level(data.patterns[p].src, match_sentence),
                                85,
                                get_risk_explanation(data.patterns[p].src, data.category, data),
                                match_sentence, MitigationFor(data.category))>>
                      ELSE <<>>
         IN  found \o FactorsOfMatches(text, sentences, data, p, ms, k + 1)

RECURSIVE FactorsOfPatterns(_, _, _, _, _)
\* for pattern in data['patterns']
FactorsOfPatterns(text, cx, sentences, data, p) ==
    IF p > Len(data.patterns) THEN <<>>
    ELSE FactorsOfMatches(text, sentences, data, p, FindIn(data.patterns[p].re, cx), 1)
         \o FactorsOfPatterns(text, cx, sentences, data, p + 1)

RECURSIVE FactorsOfCategories(_, _, _, _)
\* for category, data in self.risk_patterns.items()
FactorsOfCategories(text, cx, sentences, c) ==
    IF c > Len(risk_patterns) THEN <<>>
    ELSE FactorsOfPatterns(text, cx, sentences, risk_patterns[c], 1)
         \o FactorsOfCategories(text, cx, sentences, c + 1)

analyze_semantic_risks(text) ==
    LET sentences == Sentences(text)
    IN  IF Len(sentences) = 0 THEN <<>>
        ELSE FactorsOfCategories(text, Subject(text, TRUE), sentences, 1)

RECURSIVE StrOf(_)
\* the string of a sequence of characters
StrOf(cs) == IF Len(cs) = 0 THEN "" ELSE Head(cs) \o StrOf(Tail(cs))

\* clause_type.replace('_', ' ').title()
TitleOf(clause_type) ==
    LET n == Len(clause_type)
        Spaced(i) == IF CharAt(clause_type, i) = "_" THEN " " ELSE CharAt(clause_type, i)
        IsLetter(c) == c \in LowerAZ \cup UpperAZ
    IN  StrOf([i \in 1..n |->
                 IF i > 1 /\ IsLetter(Spaced(i - 1)) THEN LowerCh(Spaced(i))
                 ELSE UpperCh(Spaced(i))])

RECURSIVE MissingFrom(_, _)
MissingFrom(text_lower, k) ==
    IF k > Len(standard_clauses) THEN <<>>
    ELSE (IF ~\E j \in 1..Len(standard_clauses[k].keywords) :
                 Contains(text_lower, standard_clauses[k].keywords[j])
          THEN <<TitleOf(standard_clauses[k].clause_type)>> ELSE <<>>)
         \o MissingFrom(text_lower, k + 1)

\* detect_missing_clauses without text.lower()
detect_missing_clauses_case_sensitive(text) == MissingFrom(text, 1)

detect_missing_clauses(text) == MissingFrom(Lower(text), 1)

\* weights with a low factor counted as 0.5
risk_weights_low_half == [low |-> 5, medium |-> 25, high |-> 40, critical |-> 50]

\* risk_weights, in tenths
risk_weights == [low |-> 10, medium |-> 25, high |-> 40, critical |-> 50]

RECURSIVE WeightedSum(_, _)
\* sum of weight * factor.confidence, in thousandths
WeightedSum(risk_factors, k) ==
    IF k > Len(risk_factors) THEN 0
    ELSE risk_weights[risk_factors[k].level] * risk_factors[k].confidence
         + WeightedSum(risk_factors, k + 1)

\* the chain with strict comparisons
LevelOf_strict(normalized_score) ==
    IF ~FracLeq(normalized_score, Frac(8, 1)) THEN "critical"
    ELSE IF ~FracLeq(normalized_score, Frac(6, 1)) THEN "high"
    ELSE IF ~FracLeq(normalized_score, Frac(4, 1)) THEN "medium"
    ELSE "low"

\* the if/elif chain that maps normalized_score to a RiskLevel
LevelOf(normalized_score) ==
    IF FracGeq(normalized_score, 8) THEN "critical"
    ELSE IF FracGeq(normalized_score, 6) THEN "high"
    ELSE IF FracGeq(normalized_score, 4) THEN "medium"
    ELSE "low"

\* calculate_overall_risk_score with the maximum taken for all six standard
\* clauses missing
calculate_overall_risk_score_of_six(risk_factors, missing_clauses) ==
    IF Len(risk_factors) = 0 /\ Len(missing_clauses) = 0
    THEN [score |-> Frac(2, 1), level |-> "low"]
    ELSE LET score == WeightedSum(risk_factors, 1) + Len(missing_clauses) * 500
             max_possible_score == Len(risk_factors) * 5000 + 6 * 500
             normalized_score == FracMin(Frac(10, 1), Frac(score * 10, max_possible_score))
         IN  [score |-> normalized_score, level |-> LevelOf(normalized_score)]

\* calculate_overall_risk_score with a missing clause counted 1.0 in the
\* maximum and 0.5 in the score
calculate_overall_risk_score_heavier_max(risk_factors, missing_clauses) ==
    IF Len(risk_factors) = 0 /\ Len(missing_clauses) = 0
    THEN [score |-> Frac(2, 1), level |-> "low"]
    ELSE LET score == WeightedSum(risk_factors, 1) + Len(missing_clauses) * 500
             max_possible_score == Len(risk_factors) * 5000 + Len(missing_clauses) * 1000
             normalized_score == IF max_possible_score > 0
                                 THEN FracMin(Frac(10, 1), Frac(score * 10, max_possible_score))
                                 ELSE Frac(1, 1)
         IN  [score |-> normalized_score, level |-> LevelOf(normalized_score)]

\* calculate_overall_risk_score without the early return for empty lists
calculate_overall_risk_score_no_floor(risk_factors, missing_clauses) ==
    LET score == WeightedSum(risk_factors, 1) + Len(missing_clauses) * 500
        max_possible_score == Len(risk_factors) * 5000 + Len(missing_clauses) * 500
        normalized_score == IF max_possible_score > 0
                            THEN FracMin(Frac(10, 1), Frac(score * 10, max_possible_score))
                            ELSE Frac(1, 1)
    IN  [score |-> normalized_score, level |-> LevelOf(normalized_score)]

calculate_overall_risk_score(risk_factors, missing_clauses) ==
    IF Len(risk_factors) = 0 /\ Len(missing_clauses) = 0
    THEN [score |-> Frac(2, 1), level |-> "low"]
    ELSE LET \* thousandths
             score == WeightedSum(risk_factors, 1) + Len(missing_clauses) * 500
             max_possible_score == Len(risk_factors) * 5000 + Len(missing_clauses) * 500
             normalized_score == IF max_possible_score > 0
                                 THEN FracMin(Frac(10, 1), Frac(score * 10, max_possible_score))
                                 ELSE Frac(1, 1)
         IN  [score |-> normalized_score, level |-> LevelOf(normalized_score)]

RECURSIVE TopTwoOfEach(_, _)
\* recommendations.extend(factor.recommendations[:2]) for every factor
TopTwoOfEach(risk_factors, k) ==
    IF k > Len(risk_factors) THEN <<>>
    ELSE SubSeq(risk_factors[k].recommendations, 1, Min(2, Len(risk_factors[k].recommendations)))
         \o TopTwoOfEach(risk_factors, k + 1)

\* removal of duplicates that keeps the last occurrence of each
Dedup_keeping_last(xs) ==
    LET lasts == {i \in 1..Len(xs) : \A j \in (i + 1)..Len(xs) : xs[j] # xs[i]}
    IN  [k \in 1..Cardinality(lasts) |-> xs[Kth(lasts, k)]]

\* remove duplicates while preserving order
Dedup(xs) ==
    LET firsts == {i \in 1..Len(xs) : \A j \in 1..(i - 1) : xs[j] # xs[i]}
    IN  [k \in 1..Cardinality(firsts) |-> xs[Kth(firsts, k)]]

\* _generate_recommendations with the line for the missing clauses put first
generate_recommendations_line_first(risk_factors, missing_clauses) ==
    LET recommendations ==
            (IF Len(missing_clauses) > 0
             THEN <<"Consider adding the following clauses: " \o Join(missing_clauses, ", ")>>
             ELSE <<>>)
            \o TopTwoOfEach(risk_factors, 1)
        unique_recommendations == Dedup(recommendations)
    IN  SubSeq(unique_recommendations, 1, Min(10, Len(unique_recommendations)))

\* _generate_recommendations(risk_factors, missing_clauses)
generate_recommendations(risk_factors, missing_clauses) ==
    LET recommendations ==
            TopTwoOfEach(risk_factors, 1)
            \o (IF Len(missing_clauses) > 0
                THEN <<"Consider adding the following clauses: " \o Join(missing_clauses, ", ")>>
                ELSE <<>>)
        unique_recommendations == Dedup(recommendations)
    IN  SubSeq(unique_recommendations, 1, Min(10, Len(unique_recommendations)))

\* _generate_summary: the severity word and the counts the sentence reports
generate_summary(risk_factors, missing_clauses, overall_score) ==
    [severity |-> IF FracGeq(overall_score, 8) THEN "critical"
                  ELSE IF FracGeq(overall_score, 6) THEN "high"
                  ELSE IF FracGeq(overall_score, 4) THEN "moderate"
                  ELSE "low",
     risk_factors |-> Len(risk_factors),
     categories |-> Cardinality({risk_factors[k].category : k \in 1..Len(risk_factors)}),
     missing |-> Len(missing_clauses)]

RECURSIVE ConfidenceSum(_, _)
ConfidenceSum(risk_factors, k) ==
    IF k > Len(risk_factors) THEN 0
    ELSE risk_factors[k].confidence + ConfidenceSum(risk_factors, k + 1)

\* _calculate_confidence without the cap
calculate_confidence_uncapped(risk_factors) ==
    IF Len(risk_factors) = 0 THEN Frac(80, 1)
    ELSE Frac(ConfidenceSum(risk_factors, 1), Len(risk_factors))

\* _calculate_confidence(risk_factors), in hundredths
calculate_confidence(risk_factors) ==
    IF Len(risk_factors) = 0 THEN Frac(80, 1)
    ELSE FracMin(Frac(95, 1), Frac(ConfidenceSum(risk_factors, 1), Len(risk_factors)))

assess_risk(text) ==
    LET risk_factors == analyze_semantic_risks(text)
        missing_clauses == detect_missing_clauses(text)
        overall == calculate_overall_risk_score(risk_factors, missing_clauses)
    IN  [overall_score |-> overall.score,
         risk_level |-> overall.level,
         risk_factors |-> risk_factors,
         missing_clauses |-> missing_clauses,
         recommendations |-> generate_recommendations(risk_factors, missing_clauses),
         summary |-> generate_summary(risk_factors, missing_clauses, overall.score),
         confidence |-> calculate_confidence(risk_factors)]

(***************************************************************************)
(* Inputs of the question-answering engine                                 *)
(***************************************************************************)
\* set_document calls made on one engine
MaxLoads == 2

Documents == {
    "",
    "Pay $500 now.",
    "Fee is Rs. 900 or $500.",
    "Acme Corp may terminate upon 30 days notice.",
    "Governed by the laws of India. Signed 12/01/2024.",
    "Supplier shall deliver goods. Invoice due in 45 days."
    }

\* the entities argument of set_document: omitted, empty, or a mapping
EntityArgs == {
    [given |-> FALSE, value |-> {}],
    [given |-> TRUE, value |-> {}],
    [given |-> TRUE, value |-> {<<"ORG", "Acme Corp">>}]
    }

Questions == {
    "What is the contract value?",
    "Who are the parties involved?",
    "When does this contract expire?",
    "What jurisdiction governs this contract?",
    "Are there any termination clauses?",
    "What is the payment amount due?",
    "How do I cancel?",
    "Is an invoice sent?",
    "Will the supplier deliver goods?"
    }

Preferences == {"International", "India"}

NoResult == QAResult("", "", 0, "", <<>>)

NoEntities == [given |-> FALSE, value |-> {}]

NoAssessment ==
    [overall_score |-> [n |-> 0, d |-> 1], risk_level |-> "none", risk_factors |-> <<>>,
     missing_clauses |-> <<>>, recommendations |-> <<>>,
     summary |-> [severity |-> "none", risk_factors |-> 0, categories |-> 0, missing |-> 0],
     confidence |-> [n |-> 0, d |-> 1]]

NoScore == [score |-> [n |-> 0, d |-> 1], level |-> "none"]

NoConfidence == [n |-> 0, d |-> 1]

\* no document has been analyzed
NoAnalysis ==
    [enhanced |-> FALSE, raised |-> "none", returned |-> NoAssessment,
     risk_assessment |-> NoAssessment]

NoSuggestions == [country_preference |-> "none", questions |-> <<>>]

\* the preferences get_suggested_questions is called with: the choices of
\* the application and one it does not offer
SuggestionPreferences == {"International", "USA", "Canada", "UK", "India", "EU", "Mars"}

\* get_suggested_questions with no branch for "UK"
get_suggested_questions_without_uk(country_preference) ==
    <<"What is the contract value?",
      "Who are the parties involved?",
      "When does this contract expire?",
      "What are the payment terms?",
      "What jurisdiction governs this contract?",
      "Are there any termination clauses?">>
    \o (IF country_preference = "India"
        THEN <<"What are the GST/PAN numbers mentioned?",
               "Which Indian courts have jurisdiction?",
               "Are there any FEMA compliance requirements?">>
        ELSE IF country_preference = "USA"
        THEN <<"What US state law governs this contract?",
               "Are there any federal compliance requirements?">>
        ELSE <<>>)

\* get_suggested_questions(self, country_preference)
get_suggested_questions(country_preference) ==
    <<"What is the contract value?",
      "Who are the parties involved?",
      "When does this contract expire?",
      "What are the payment terms?",
      "What jurisdiction governs this contract?",
      "Are there any termination clauses?">>
    \o (IF country_preference = "India"
        THEN <<"What are the GST/PAN numbers mentioned?",
               "Which Indian courts have jurisdiction?",
               "Are there any FEMA compliance requirements?">>
        ELSE IF country_preference = "USA"
        THEN <<"What US state law governs this contract?",
               "Are there any federal compliance requirements?">>
        ELSE IF country_preference = "UK"
        THEN <<"Which UK courts have jurisdiction?",
               "Are there any Companies House requirements?">>
        ELSE <<>>)

(***************************************************************************)
(* Sessions of the application, each with its st.session_state             *)
(***************************************************************************)
Sessions == {1, 2}

\* one LegalQAEngine for every session
EngineOf_shared(session) == 1

\* st.session_state.qa_engine: the instance created for the session
EngineOf(session) == session

NewEngine == [document_text |-> "", entities |-> {}]

NoSessionResult == [session |-> 0, preference |-> "none", result |-> NoResult]

\* every session has started and none has loaded a document
InitSessions ==
    /\ engines = [instance \in {EngineOf(session) : session \in Sessions} |-> NewEngine]
    /\ session_loaded = [session \in Sessions |-> ""]
    /\ session_result = NoSessionResult

(***************************************************************************)
(* ChatMemory (modules/chat_memory.py)                                     *)
(***************************************************************************)
\* interactions kept for one document id
MaxHistory == 2

DocIds == {"d1", "d2"}

\* the {question, answer} pairs given to add_interaction
Interactions == [question : {"q1", "q2"}, answer : {"a1"}]

\* add_interaction: the memory it leaves
add_interaction(mem, doc_id, question, answer) ==
    LET entry == [question |-> question, answer |-> answer]
    IN  IF doc_id \notin DOMAIN mem
        THEN [d \in DOMAIN mem \cup {doc_id} |-> IF d = doc_id THEN <<entry>> ELSE mem[d]]
        ELSE [mem EXCEPT ![doc_id] = Append(@, entry)]

\* get_history: self.memory.get(doc_id, [])
get_history(mem, doc_id) == IF doc_id \in DOMAIN mem THEN mem[doc_id] ELSE <<>>

\* clear_history that empties the whole memory
clear_history_everything(mem, doc_id) ==
    IF doc_id \in DOMAIN mem THEN [d \in {} |-> <<>>] ELSE mem

\* clear_history: the memory it leaves
clear_history(mem, doc_id) ==
    IF doc_id \in DOMAIN mem THEN [d \in DOMAIN mem \ {doc_id} |-> mem[d]] ELSE mem

NoMemoryCall == [doc_id |-> "none", returned |-> <<>>]

\* ChatMemory.__init__
InitMemory ==
    /\ memory = [d \in {} |-> <<>>]
    /\ added = [d \in DocIds |-> <<>>]
    /\ memory_call = NoMemoryCall

\* a constructor that leaves a document in the engine
InitQA_with_document ==
    /\ document_text = "Pay $500 now."
    /\ entities = {}
    /\ qa_result = NoResult
    /\ extractor = "none"
    /\ preference = "none"
    /\ loaded = [text |-> "", entities |-> NoEntities]
    /\ loads = 0
    /\ suggestions = NoSuggestions

\* LegalQAEngine.__init__
InitQA ==
    /\ document_text = ""
    /\ entities = {}
    /\ qa_result = NoResult
    /\ extractor = "none"
    /\ preference = "none"
    /\ loaded = [text |-> "", entities |-> NoEntities]
    /\ loads = 0
    /\ suggestions = NoSuggestions

\* no assessment requested
InitRiskIdle ==
    /\ risk_text = ""
    /\ assessment = NoAssessment
    /\ cs_factors = <<>>
    /\ cs_missing = <<>>
    /\ cs_result = NoScore
    /\ cs_prev = NoScore
    /\ cs_confidence = NoConfidence
    /\ cs_recommendations = <<>>
    /\ analysis = NoAnalysis

Init == InitQA /\ InitRiskIdle /\ InitSessions /\ InitMemory /\ op = "init"

SetDocument ==
    /\ loads < MaxLoads
    /\ \E text \in Documents, arg \in EntityArgs :
          LET self == set_document([document_text |-> document_text, entities |-> entities],
                                   text, arg)
          IN  /\ document_text' = self.document_text
              /\ entities' = self.entities
              /\ loaded' = [text |-> text, entities |-> arg]
    /\ loads' = loads + 1
    /\ op' = "set_document"
    /\ UNCHANGED <<qa_result, extractor, preference, suggestions, risk_vars,
                   session_vars, memory_vars>>

\* the extractor answer_question dispatches each question of Questions to
RouteTable == [question \in Questions |-> route(question)]

\* what answer_question returns on an engine holding each document of
\* Documents, for each question and preference
AnswerTable ==
    [text \in Documents, question \in Questions, country_preference \in Preferences |->
        answer_question(text, question, country_preference)]

\* answer_question raising the confidence when the engine holds entities
AnswerQuestion_using_entities ==
    /\ \E question \in Questions, country_preference \in Preferences :
          /\ extractor' = RouteTable[question]
          /\ preference' = country_preference
          /\ \E r \in AnswerTable[document_text, question, country_preference] :
                qa_result' = [r EXCEPT !.confidence = IF entities # {} THEN 95 ELSE @]
    /\ op' = "answer_question"
    /\ UNCHANGED <<document_text, entities, loaded, loads, suggestions, risk_vars,
                   session_vars, memory_vars>>

\* answer_question dropping the stored text once it has answered
AnswerQuestion_consuming ==
    /\ \E question \in Questions, country_preference \in Preferences :
          /\ extractor' = RouteTable[question]
          /\ preference' = country_preference
          /\ qa_result' \in AnswerTable[document_text, question, country_preference]
    /\ document_text' = ""
    /\ op' = "answer_question"
    /\ UNCHANGED <<entities, loaded, loads, suggestions, risk_vars,
                   session_vars, memory_vars>>

AnswerQuestion ==
    /\ \E question \in Questions, country_preference \in Preferences :
          /\ extractor' = RouteTable[question]
          /\ preference' = country_preference
          /\ qa_result' \in AnswerTable[document_text, question, country_preference]
    /\ op' = "answer_question"
    /\ UNCHANGED <<document_text, entities, loaded, loads, suggestions, risk_vars,
                   session_vars, memory_vars>>

RECURSIVE Repeat(_, _)
\* s * n
Repeat(s, n) == IF n = 0 THEN "" ELSE s \o Repeat(s, n - 1)

\* documents given to set_document before one question is asked: those of
\* Documents, one with six distinct payment terms, one whose first sentence
\* has more than 300 characters, one with two relevant sentences of the same
\* length, and one with a single word of the question
AnswerDocuments ==
    Documents \cup
    {"Net 1 day, 2 days, 3 days, 4 days, 5 days, 6 days.",
     "The supplier will deliver goods" \o Repeat(" and more goods", 20)
        \o ". The supplier will deliver.",
     "Supplier goods by road. Supplier goods by rail.",
     "Delivery is late."}

AnswerQuestions == Questions \cup {"Does delivery follow delivery?"}

\* what answer_question returns on an engine holding each of these documents
LoadedAnswerTable ==
    [text \in AnswerDocuments, question \in AnswerQuestions,
     country_preference \in Preferences |->
        answer_question(text, question, country_preference)]

\* the extractor answer_question dispatches each of these questions to
LoadedRouteTable == [question \in AnswerQuestions |-> route(question)]

\* an engine on which set_document(text) has been called once
InitAnswers ==
    /\ document_text \in AnswerDocuments
    /\ entities = {}
    /\ qa_result = NoResult
    /\ extractor = "none"
    /\ preference = "none"
    /\ loaded = [text |-> document_text, entities |-> NoEntities]
    /\ loads = 1
    /\ suggestions = NoSuggestions
    /\ InitRiskIdle
    /\ InitSessions
    /\ InitMemory
    /\ op = "set_document"

\* answer_question(question, country_preference) on that engine
AnswerLoaded ==
    /\ op = "set_document"
    /\ \E question \in AnswerQuestions, country_preference \in Preferences :
          /\ extractor' = LoadedRouteTable[question]
          /\ preference' = country_preference
          /\ qa_result' \in LoadedAnswerTable[document_text, question, country_preference]
    /\ op' = "answer_question"
    /\ UNCHANGED <<document_text, entities, loaded, loads, suggestions, risk_vars,
                   session_vars, memory_vars>>

SpecAnswers == InitAnswers /\ [][AnswerLoaded]_vars

GetSuggestedQuestions ==
    /\ \E country_preference \in SuggestionPreferences :
          suggestions' = [country_preference |-> country_preference,
                          questions |-> get_suggested_questions(country_preference)]
    /\ op' = "get_suggested_questions"
    /\ UNCHANGED <<document_text, entities, qa_result, extractor, preference, loaded, loads,
                   risk_vars, session_vars, memory_vars>>

Next == SetDocument \/ AnswerQuestion \/ GetSuggestedQuestions

Spec == Init /\ [][Next]_vars

(***************************************************************************)
(* Inputs of the risk assessment engine                                    *)
(***************************************************************************)
\* fragments a document is made of
MaxFragments == 2

\* risk factors in a list given to calculate_overall_risk_score
MaxFactors == 2

\* missing clauses in a list given to calculate_overall_risk_score
MaxMissing == 6

RiskFragments == <<
    "Unlimited liability applies. ",
    "Liquidated damages are due. ",
    "A penalty is owed. ",
    "Hold harmless the vendor. ",
    "FORCE MAJEURE and arbitration. ",
    "Liability cap, confidentiality, notice period and IP rights. ",
    "immediate termination ",
    " ",
    "Force majeure, arbitration, liability cap, confidentiality, notice period and IP rights apply. ",
    "Arbitration applies. ",
    "Personal guarantee, payment in advance and immediate termination. "
    >>

RECURSIVE ConcatAll(_)
ConcatAll(parts) == IF Len(parts) = 0 THEN "" ELSE Head(parts) \o ConcatAll(Tail(parts))

\* every concatenation of at most MaxFragments fragments
RiskDocuments ==
    {ConcatAll(parts) :
        parts \in UNION {[1..k -> Range(RiskFragments)] : k \in 0..MaxFragments}}

RiskLevels == {"low", "medium", "high", "critical"}

\* factor.confidence values, in hundredths
Confidences == {50, 85, 100}

\* the fields of a RiskFactor that calculate_overall_risk_score reads
FactorKinds == [level : RiskLevels, confidence : Confidences]

FactorLists == UNION {[1..k -> FactorKinds] : k \in 0..MaxFactors}

\* the name of the i-th missing clause
ClauseName(i) ==
    IF i <= Len(standard_clauses) THEN TitleOf(standard_clauses[i].clause_type)
    ELSE "Clause " \o ToString(i)

MissingLists == {[i \in 1..m |-> ClauseName(i)] : m \in 0..MaxMissing}

\* risk factors in a list given to _generate_recommendations
MaxRecFactors == 5

\* factor.recommendations of the k-th factor of such a list: none, the
\* strategies of a category, or one or three of its own
RecommendationKinds(k) ==
    <<<<>>,
      mitigation_strategies.liability,
      <<"Review clause " \o ToString(k)>>,
      <<"Renegotiate clause " \o ToString(k), "Cap clause " \o ToString(k),
        "Drop clause " \o ToString(k)>>>>

\* the field of a RiskFactor that _generate_recommendations reads
RecommendationLists ==
    UNION {{[k \in 1..n |-> [recommendations |-> RecommendationKinds(k)[pick[k]]]] :
               pick \in [1..n -> 1..4]} :
           n \in 0..MaxRecFactors}

\* an EnhancedRiskDetector is constructed and given a text to assess, or
\* lists of factors and missing clauses to score
InitRisk ==
    /\ InitQA
    /\ InitSessions
    /\ InitMemory
    /\ assessment = NoAssessment
    /\ cs_result = NoScore
    /\ cs_prev = NoScore
    /\ cs_confidence = NoConfidence
    /\ cs_recommendations = <<>>
    /\ analysis = NoAnalysis
    /\ \/ /\ op = "text"
          /\ risk_text \in RiskDocuments
          /\ cs_factors = <<>>
          /\ cs_missing = <<>>
       \/ /\ op = "lists"
          /\ risk_text = ""
          /\ cs_factors \in FactorLists
          /\ cs_missing \in MissingLists
       \/ /\ op = "recs"
          /\ risk_text = ""
          /\ cs_factors \in RecommendationLists
          /\ cs_missing \in {<<>>, <<ClauseName(1), ClauseName(2)>>}

AssessRisk ==
    /\ op = "text"
    /\ assessment' = assess_risk(risk_text)
    /\ op' = "assess_risk"
    /\ UNCHANGED <<qa_vars, session_vars, memory_vars, cs_recommendations, analysis, risk_text, cs_factors, cs_missing, cs_result, cs_prev,
                   cs_confidence>>

\* calculate_overall_risk_score(cs_factors, cs_missing)
CalculateScore ==
    /\ op = "lists"
    /\ cs_result' = calculate_overall_risk_score(cs_factors, cs_missing)
    /\ op' = "calculate"
    /\ UNCHANGED <<qa_vars, session_vars, memory_vars, cs_recommendations, analysis, risk_text, assessment, cs_factors, cs_missing, cs_prev,
                   cs_confidence>>

\* a further call with one more factor in the list, the rest the same
RecalculateWithFactor ==
    /\ op \in {"calculate", "add_factor"}
    /\ Len(cs_factors) < MaxFactors
    /\ \E factor \in FactorKinds : cs_factors' = Append(cs_factors, factor)
    /\ cs_prev' = cs_result
    /\ cs_result' = calculate_overall_risk_score(cs_factors', cs_missing)
    /\ op' = "add_factor"
    /\ UNCHANGED <<qa_vars, session_vars, memory_vars, cs_recommendations, analysis, risk_text, assessment, cs_missing, cs_confidence>>

\* the positions of the scoring sequence after which a list is changed
Scored == {"calculate", "add_factor", "add_missing", "raise_level"}

\* a further call with one more missing clause, the factors the same
RecalculateWithMissing ==
    /\ op \in Scored
    /\ Len(cs_missing) < MaxMissing
    /\ cs_missing' = Append(cs_missing, ClauseName(Len(cs_missing) + 1))
    /\ cs_prev' = cs_result
    /\ cs_result' = calculate_overall_risk_score(cs_factors, cs_missing')
    /\ op' = "add_missing"
    /\ UNCHANGED <<qa_vars, session_vars, memory_vars, cs_recommendations, analysis, risk_text, assessment, cs_factors, cs_confidence>>

\* RiskLevel in increasing severity
LevelRank(level) ==
    CASE level = "low" -> 1 [] level = "medium" -> 2 [] level = "high" -> 3 [] OTHER -> 4

\* a further call with the level of one factor raised, the rest the same
RecalculateWithRaisedLevel ==
    /\ op \in Scored
    /\ \E k \in 1..Len(cs_factors), level \in RiskLevels :
          /\ LevelRank(level) > LevelRank(cs_factors[k].level)
          /\ cs_factors' = [cs_factors EXCEPT ![k].level = level]
    /\ cs_prev' = cs_result
    /\ cs_result' = calculate_overall_risk_score(cs_factors', cs_missing)
    /\ op' = "raise_level"
    /\ UNCHANGED <<qa_vars, session_vars, memory_vars, cs_recommendations, analysis, risk_text, assessment, cs_missing, cs_confidence>>

\* _calculate_confidence(cs_factors)
CalculateConfidence ==
    /\ op = "lists"
    /\ cs_confidence' = calculate_confidence(cs_factors)
    /\ op' = "confidence"
    /\ UNCHANGED <<qa_vars, session_vars, memory_vars, cs_recommendations, analysis, risk_text, assessment, cs_factors, cs_missing, cs_result, cs_prev>>

\* {'overall_score': 0, 'risk_level': 'Unknown', 'risk_factors': []}
EmptyRiskResult ==
    [overall_score |-> Frac(0, 1), risk_level |-> "Unknown", risk_factors |-> <<>>]

\* the dict built from RiskDetector().detect([text]), whose one entry is
\* flagged risky or not
LegacyRiskResult(text, risky) ==
    LET risk_clauses == <<[clause |-> text, risky |-> risky]>>
        flagged == Cardinality({k \in 1..Len(risk_clauses) : risk_clauses[k].risky})
    IN  [overall_score |-> Frac(flagged * 2, 1),
         risk_level |-> IF flagged > 3 THEN "High" ELSE IF flagged > 1 THEN "Medium" ELSE "Low",
         risk_factors |-> risk_clauses]

\* step 3 of analyze_document_with_all_modules: what assess_risk returned,
\* if it was called and returned, and results['risk_assessment'] at the end.
\* In the try block the result is stored and then st.success formats
\* risk_assessment.get('risk_level', 'Unknown'); a RiskAssessment is a
\* dataclass and has no get, so on the enhanced path that line raises and
\* the handler stores the empty result.
analyze_risks(text, enhanced, raised, risky) ==
    IF raised # "none"
    THEN [enhanced |-> enhanced, raised |-> raised, returned |-> NoAssessment,
          risk_assessment |-> EmptyRiskResult]
    ELSE IF enhanced
    THEN LET risk_assessment == assess_risk(text)
         IN  [enhanced |-> enhanced, raised |-> raised, returned |-> risk_assessment,
              risk_assessment |-> EmptyRiskResult]
    ELSE [enhanced |-> enhanced, raised |-> raised, returned |-> NoAssessment,
          risk_assessment |-> LegacyRiskResult(text, risky)]

\* analyze_document_with_all_modules(risk_text), with or without the
\* enhanced engine, the detector raising in its constructor, in the
\* assessment, or not at all
AnalyzeDocument ==
    /\ op = "text"
    /\ \E enhanced \in BOOLEAN, raised \in {"none", "constructor", "assess"},
          risky \in BOOLEAN :
          analysis' = analyze_risks(risk_text, enhanced, raised, risky)
    /\ op' = "analyze"
    /\ UNCHANGED <<qa_vars, session_vars, memory_vars, cs_recommendations, risk_text,
                   assessment, cs_factors, cs_missing, cs_result, cs_prev, cs_confidence>>

\* _generate_recommendations(cs_factors, cs_missing)
GenerateRecommendations ==
    /\ op = "recs"
    /\ cs_recommendations' = generate_recommendations(cs_factors, cs_missing)
    /\ op' = "recommendations"
    /\ UNCHANGED <<qa_vars, session_vars, memory_vars, analysis, risk_text, assessment,
                   cs_factors, cs_missing, cs_result, cs_prev, cs_confidence>>

NextRisk ==
    \/ AssessRisk
    \/ AnalyzeDocument
    \/ GenerateRecommendations
    \/ CalculateScore
    \/ RecalculateWithFactor
    \/ RecalculateWithMissing
    \/ RecalculateWithRaisedLevel
    \/ CalculateConfidence

SpecRisk == InitRisk /\ [][NextRisk]_vars

(***************************************************************************)
(* Sessions calling their engines in any interleaving                      *)
(***************************************************************************)
\* the session's script calls set_document on its engine
SessionLoad(session) ==
    /\ \E text \in Documents, arg \in EntityArgs :
          /\ engines' = [engines EXCEPT ![EngineOf(session)] = set_document(@, text, arg)]
          /\ session_loaded' = [session_loaded EXCEPT ![session] = text]
    /\ op' = "session_load"
    /\ UNCHANGED <<session_result, qa_vars, risk_vars, memory_vars>>

\* the session's script calls answer_question on its engine
SessionAnswer(session) ==
    /\ \E question \in Questions, country_preference \in Preferences :
          \E r \in AnswerTable[engines[EngineOf(session)].document_text, question,
                               country_preference] :
              session_result' = [session |-> session, preference |-> country_preference,
                                 result |-> r]
    /\ op' = "session_answer"
    /\ UNCHANGED <<engines, session_loaded, qa_vars, risk_vars, memory_vars>>

NextSessions == \E session \in Sessions : SessionLoad(session) \/ SessionAnswer(session)

SpecSessions == Init /\ [][NextSessions]_vars

(***************************************************************************)
(* Calls on one ChatMemory                                                 *)
(***************************************************************************)
AddInteraction ==
    /\ \E doc_id \in DocIds, entry \in Interactions :
          /\ Len(get_history(memory, doc_id)) < MaxHistory
          /\ memory' = add_interaction(memory, doc_id, entry.question, entry.answer)
          /\ added' = [added EXCEPT ![doc_id] = Append(@, entry)]
          /\ memory_call' = [doc_id |-> doc_id, returned |-> <<>>]
    /\ op' = "add_interaction"
    /\ UNCHANGED <<qa_vars, risk_vars, session_vars>>

GetHistory ==
    /\ \E doc_id \in DocIds :
          memory_call' = [doc_id |-> doc_id, returned |-> get_history(memory, doc_id)]
    /\ op' = "get_history"
    /\ UNCHANGED <<memory, added, qa_vars, risk_vars, session_vars>>

ClearHistory ==
    /\ \E doc_id \in DocIds :
          /\ memory' = clear_history(memory, doc_id)
          /\ added' = [added EXCEPT ![doc_id] = <<>>]
          /\ memory_call' = [doc_id |-> doc_id, returned |-> <<>>]
    /\ op' = "clear_history"
    /\ UNCHANGED <<qa_vars, risk_vars, session_vars>>

NextMemory == AddInteraction \/ GetHistory \/ ClearHistory

SpecMemory == Init /\ [][NextMemory]_vars

(***************************************************************************)
(* Properties of the question-answering engine, checked under Spec         *)
(***************************************************************************)
\* C1: answer_question dispatches to the extractor of the first rule, in the
\* order money, party, date, jurisdiction, termination, payment, that has a
\* keyword as a substring of the lowercased question, and to the general
\* fallback only when no rule has one; the result returned is one that
\* extractor produces.  A question with a money keyword and a payment
\* keyword is answered by the money extractor.
C1_FirstMatchWins ==
    op = "answer_question" =>
        LET q == Lower(qa_result.question)
            Mentions(words) == \E w \in words : Contains(q, w)
            money == Mentions({"value", "amount", "price", "cost", "money", "payment"})
            payment == Mentions({"payment", "pay", "invoice", "billing"})
            expected ==
                IF money THEN "money"
                ELSE IF Mentions({"party", "parties", "who", "company", "organization"})
                     THEN "party"
                ELSE IF Mentions({"date", "when", "expire", "expiry", "term", "duration"})
                     THEN "date"
                ELSE IF Mentions({"jurisdiction", "court", "law", "governing", "legal"})
                     THEN "jurisdiction"
                ELSE IF Mentions({"terminate", "termination", "end", "cancel"})
                     THEN "termination"
                ELSE IF payment THEN "payment"
                ELSE "general"
        IN  /\ extractor = expected
            /\ (money /\ payment) => extractor = "money"
            /\ qa_result \in dispatch(expected, document_text, qa_result.question, preference)

\* a question with both a money and a payment keyword was answered by money
C1_Witness ==
    /\ op = "answer_question"
    /\ qa_result.question = "What is the payment amount due?"
    /\ extractor = "money"
    /\ document_text = "Pay $500 now."
    /\ qa_result.answer = "Found monetary amounts: $500"

\* C2: a question that mentions terminate, termination, end or cancel and
\* none of whose words is a money, party, date or jurisdiction keyword is
\* dispatched to the termination extractor.
C2_TerminationQuestion ==
    op = "answer_question" =>
        LET q == Lower(qa_result.question)
            words == Range(Groups0(q, FindIter(word_pattern, q, FALSE)))
            earlier == {"value", "amount", "price", "cost", "money", "payment",
                        "party", "parties", "who", "company", "organization",
                        "date", "when", "expire", "expiry", "term", "duration",
                        "jurisdiction", "court", "law", "governing", "legal"}
        IN  ((\E w \in {"terminate", "termination", "end", "cancel"} : Contains(q, w))
                /\ words \cap earlier = {})
            => extractor = "termination"

\* C3: the money extractor uses only the patterns of the preference's
\* currency: on a document whose only amount is "$500", preference "India"
\* gives the negative answer with confidence 0.3, and any other preference
\* used here gives the positive answer listing "$500" with confidence 0.9.
C3_PreferenceFiltersCurrency ==
    (op = "answer_question" /\ extractor = "money" /\ document_text = "Pay $500 now.") =>
        IF preference = "India"
        THEN /\ qa_result.answer = "No monetary amounts found in the document."
             /\ qa_result.confidence = 30
        ELSE /\ qa_result.answer = "Found monetary amounts: $500"
             /\ qa_result.sources = <<"$500">>
             /\ qa_result.confidence = 90

\* C9: once set_document has been called, whatever was loaded before, the
\* stored text and entities are those of the last call (no entities when
\* they were omitted or empty), and an answer is one that an engine holding
\* only the last call's text returns.
C9_SetDocumentReplaces ==
    loads >= 1 =>
        /\ document_text = loaded.text
        /\ entities = (IF loaded.entities.given THEN loaded.entities.value ELSE {})
        /\ op = "answer_question" =>
              qa_result \in AnswerTable[loaded.text, qa_result.question, preference]

\* a second document was loaded without entities and a question answered
C9_Witness ==
    /\ loads = 2
    /\ op = "answer_question"
    /\ ~loaded.entities.given
    /\ entities = {}
    /\ document_text = "Pay $500 now."
    /\ qa_result.answer = "Found monetary amounts: $500"

\* C10: answer_question always returns a QAResult for the question asked;
\* on an engine on which set_document was never called it returns what it
\* returns on the empty document: the negative answer of the extractor
\* chosen, with confidence 0.3 (0.2 for the general fallback) and no sources.
C10_AnswerBeforeLoad ==
    op = "answer_question" =>
        /\ DOMAIN qa_result = {"question", "answer", "confidence", "context", "sources"}
        /\ qa_result.question \in Questions
        /\ loads = 0 =>
              /\ qa_result \in AnswerTable["", qa_result.question, preference]
              /\ qa_result.sources = <<>>
              /\ qa_result.context = ""
              /\ qa_result.confidence = (IF extractor = "general" THEN 20 ELSE 30)
              /\ qa_result.answer =
                    CASE extractor = "money" -> "No monetary amounts found in the document."
                      [] extractor = "party" ->
                            "No clear parties or organizations identified in the document."
                      [] extractor = "date" -> "No specific dates found in the document."
                      [] extractor = "jurisdiction" ->
                            "No clear jurisdiction or governing law clauses found."
                      [] extractor = "termination" -> "No specific termination clauses found."
                      [] extractor = "payment" -> "No specific payment terms found."
                      [] OTHER -> "I couldn't find specific information to answer that question. Please try rephrasing or ask about parties, amounts, dates, or jurisdiction."

\* the general fallback answered on an engine that was never loaded
C10_Witness ==
    /\ op = "answer_question"
    /\ loads = 0
    /\ extractor = "general"
    /\ qa_result.confidence = 20
    /\ qa_result.sources = <<>>

(***************************************************************************)
(* Properties of the risk assessment engine, checked under SpecRisk        *)
(***************************************************************************)
\* C4: with no risk factor and no missing clause the score is exactly 2.0
\* and the level is low, from calculate_overall_risk_score and from
\* assess_risk.
C4_CleanDocumentFloor ==
    /\ (op \in {"calculate", "add_factor"} /\ cs_factors = <<>> /\ cs_missing = <<>>) =>
          cs_result = [score |-> [n |-> 2, d |-> 1], level |-> "low"]
    /\ (op = "assess_risk" /\ assessment.risk_factors = <<>>
            /\ assessment.missing_clauses = <<>>) =>
          /\ assessment.overall_score = [n |-> 2, d |-> 1]
          /\ assessment.risk_level = "low"

\* a document with all six standard clauses and no risk pattern was assessed
C4_Witness ==
    /\ op = "assess_risk"
    /\ risk_text # ""
    /\ assessment.risk_factors = <<>>
    /\ assessment.missing_clauses = <<>>
    /\ assessment.overall_score = [n |-> 2, d |-> 1]

\* C5: the level returned with a score is the one the thresholds give it:
\* critical from 8, high from 6 below 8, medium from 4 below 6, low below 4.
C5_LevelMatchesScore ==
    LET Level(x) ==
            IF x.n >= 8 * x.d THEN "critical"
            ELSE IF x.n >= 6 * x.d THEN "high"
            ELSE IF x.n >= 4 * x.d THEN "medium"
            ELSE "low"
    IN  /\ op = "assess_risk" => assessment.risk_level = Level(assessment.overall_score)
        /\ op \in {"calculate", "add_factor"} => cs_result.level = Level(cs_result.score)

\* an assessment scored exactly 8.0 and is critical
C5_Witness ==
    /\ op = "assess_risk"
    /\ assessment.overall_score = [n |-> 8, d |-> 1]
    /\ assessment.risk_level = "critical"

\* C6: a list with one more critical factor, everything else the same,
\* never scores below the list without it.
C6_CriticalFactorNeverLowers ==
    (op = "add_factor" /\ cs_factors[Len(cs_factors)].level = "critical") =>
        cs_result.score.n * cs_prev.score.d >= cs_prev.score.n * cs_result.score.d

\* C7: assess_risk on the empty string or on whitespace returns no risk
\* factors, no missing clauses, score 2.0 and level low.
C7_EmptyTextDegrades ==
    (op = "assess_risk" /\ Strip(risk_text) = "") =>
        /\ assessment.risk_factors = <<>>
        /\ assessment.missing_clauses = <<>>
        /\ assessment.overall_score = [n |-> 2, d |-> 1]
        /\ assessment.risk_level = "low"

\* C8: a standard clause is listed as missing exactly when none of its
\* keywords occurs in the text, letter case ignored; a text with "force
\* majeure" in any case does not list Force Majeure, and a text with no
\* keyword of any group lists all six clauses.
C8_MissingIffNoKeyword ==
    op = "assess_risk" =>
        LET n == Len(risk_text)
            SameLetter(a, b) == LowerCh(a) = LowerCh(b)
            Occurs(kw) ==
                \E i \in 1..(n - Len(kw) + 1) :
                    \A j \in 1..Len(kw) : SameLetter(CharAt(risk_text, i + j - 1), CharAt(kw, j))
            Present(k) ==
                \E j \in 1..Len(standard_clauses[k].keywords) :
                    Occurs(standard_clauses[k].keywords[j])
            missing == Range(assessment.missing_clauses)
        IN  /\ \A k \in 1..Len(standard_clauses) :
                  (TitleOf(standard_clauses[k].clause_type) \in missing) <=> ~Present(k)
            /\ Occurs("force majeure") => "Force Majeure" \notin missing
            /\ (\A k \in 1..Len(standard_clauses) : ~Present(k)) =>
                  assessment.missing_clauses =
                      <<"Limitation Of Liability", "Force Majeure", "Confidentiality",
                        "Dispute Resolution", "Termination Notice", "Intellectual Property">>

\* a text with FORCE MAJEURE in capitals was assessed and the clause is not
\* listed, while clauses it has no keyword of are
C8_Witness ==
    /\ op = "assess_risk"
    /\ Contains(risk_text, "FORCE MAJEURE")
    /\ ~Contains(risk_text, "force majeure")
    /\ "Force Majeure" \notin Range(assessment.missing_clauses)
    /\ "Confidentiality" \in Range(assessment.missing_clauses)

(***************************************************************************)
(* Further properties of the question-answering engine, under Spec         *)
(***************************************************************************)
\* C11: every execution of answer_question on the same text, question and
\* preference returns the same answer string as the one observed; only the
\* order of the sources may differ.
C11_AnswerDeterministic ==
    op = "answer_question" =>
        \A r \in AnswerTable[document_text, qa_result.question, preference] :
            /\ r.answer = qa_result.answer
            /\ Range(r.sources) = Range(qa_result.sources)

\* C12: an extractor's not-found confidence is below the confidence of
\* every found result it gives for the same question; money is 0.9 found
\* and 0.3 not found, jurisdiction 0.9 found, general 0.6 found and 0.2 not
\* found.
C12_NotFoundBelowFound ==
    op = "answer_question" =>
        LET found == qa_result.sources # <<>>
        IN  /\ ~found =>
                  \A text \in Documents :
                      \A r \in AnswerTable[text, qa_result.question, preference] :
                          r.sources # <<>> => qa_result.confidence < r.confidence
            /\ extractor = "money" => qa_result.confidence = (IF found THEN 90 ELSE 30)
            /\ (extractor = "jurisdiction" /\ found) => qa_result.confidence = 90
            /\ extractor = "general" => qa_result.confidence = (IF found THEN 60 ELSE 20)
            /\ ~found => qa_result.confidence < 50

\* the general fallback gave its not-found answer to a question that it
\* answers from another document
C12_Witness ==
    /\ op = "answer_question"
    /\ extractor = "general"
    /\ qa_result.sources = <<>>
    /\ qa_result.confidence = 20
    /\ \E text \in Documents :
          \E r \in AnswerTable[text, qa_result.question, preference] : r.confidence = 60

(***************************************************************************)
(* Further properties of the risk assessment engine, under SpecRisk        *)
(***************************************************************************)
\* C13: the overall_score of every RiskAssessment returned by assess_risk
\* is at least 1 and at most 10.
C13_ScoreInRange ==
    op = "assess_risk" =>
        /\ assessment.overall_score.n >= assessment.overall_score.d
        /\ assessment.overall_score.n <= 10 * assessment.overall_score.d

\* a document with every standard clause and one low factor was assessed:
\* the lowest score a document with a factor gets, 1.7
C13_Witness ==
    /\ op = "assess_risk"
    /\ Len(assessment.risk_factors) = 1
    /\ assessment.risk_factors[1].level = "low"
    /\ assessment.missing_clauses = <<>>
    /\ assessment.overall_score = [n |-> 17, d |-> 10]

\* C14: with the factors the same, one more missing clause does not lower
\* the score; with the missing clauses the same, raising the level of one
\* factor does not lower it.
C14_MonotoneInMissingAndLevel ==
    op \in {"add_missing", "raise_level"} =>
        cs_result.score.n * cs_prev.score.d >= cs_prev.score.n * cs_result.score.d

\* a missing clause was added to a list with a factor and the score rose
C14_Witness ==
    /\ op = "add_missing"
    /\ Len(cs_factors) >= 1
    /\ Len(cs_missing) >= 2
    /\ cs_result.score.n * cs_prev.score.d > cs_prev.score.n * cs_result.score.d

\* C20: the confidence of an assessment is the mean of its factors'
\* confidences, at most 0.95, and 0.8 when there is no factor; it lies
\* between 0 and 0.95.
C20_ConfidenceIsCappedMean ==
    LET Sum(fs) == LET RECURSIVE S(_)
                       S(k) == IF k = 0 THEN 0 ELSE fs[k].confidence + S(k - 1)
                   IN  S(Len(fs))
        \* c = min(95, mean of fs), or 80, in hundredths
        Is(c, fs) ==
            IF Len(fs) = 0 THEN c.n = 80 * c.d
            ELSE IF Sum(fs) >= 95 * Len(fs) THEN c.n = 95 * c.d
            ELSE c.n * Len(fs) = Sum(fs) * c.d
        InRange(c) == c.n >= 0 /\ c.n <= 95 * c.d
    IN  /\ op = "confidence" => Is(cs_confidence, cs_factors) /\ InRange(cs_confidence)
        /\ op = "assess_risk" =>
              Is(assessment.confidence, assessment.risk_factors) /\ InRange(assessment.confidence)

\* the mean of two confidences was above the cap and 0.95 was returned
C20_Witness ==
    /\ op = "confidence"
    /\ Len(cs_factors) = 2
    /\ cs_factors[1].confidence + cs_factors[2].confidence > 190
    /\ cs_confidence = [n |-> 95, d |-> 1]

(***************************************************************************)
(* Properties of one engine's answers and suggestions, under Spec          *)
(***************************************************************************)
\* C15: an engine loaded with the same text and any other entity mapping,
\* also an empty or omitted one, can return a result with the same answer,
\* confidence, context and set of sources as the one observed.
C15_EntitiesDoNotInfluence ==
    op = "answer_question" =>
        \A arg \in EntityArgs :
            LET other == set_document(NewEngine, document_text, arg)
            IN  \E r \in AnswerTable[other.document_text, qa_result.question, preference] :
                    /\ r.answer = qa_result.answer
                    /\ r.confidence = qa_result.confidence
                    /\ r.context = qa_result.context
                    /\ Range(r.sources) = Range(qa_result.sources)

\* an engine holding entities found an answer
C15_Witness ==
    /\ op = "answer_question"
    /\ entities # {}
    /\ loaded.entities.given
    /\ extractor = "party"
    /\ qa_result.sources # <<>>

\* C16: a step that answers a question or returns suggestions leaves the
\* stored text and entities as they were, and an answer is one the text
\* last loaded gives for that question, whatever was asked before.
C16_QuestionsLeaveDocument ==
    [][(op' \in {"answer_question", "get_suggested_questions"}) =>
          /\ document_text' = document_text
          /\ entities' = entities
          /\ op' = "answer_question" =>
                qa_result' \in AnswerTable[loaded.text, qa_result'.question, preference']]_vars

\* after one load and a call of get_suggested_questions a question was
\* answered from the loaded text
C16_Witness ==
    /\ op = "answer_question"
    /\ loads = 1
    /\ suggestions # NoSuggestions
    /\ document_text = loaded.text
    /\ document_text = "Supplier shall deliver goods. Invoice due in 45 days."
    /\ extractor = "general"
    /\ qa_result.sources # <<>>

\* C19: get_suggested_questions returns the six base questions first, then
\* three more for "India", two for "USA", two for "UK", and nothing more
\* for any other preference.
C19_SuggestedQuestions ==
    op = "get_suggested_questions" =>
        LET base == <<"What is the contract value?",
                      "Who are the parties involved?",
                      "When does this contract expire?",
                      "What are the payment terms?",
                      "What jurisdiction governs this contract?",
                      "Are there any termination clauses?">>
            p == suggestions.country_preference
            questions == suggestions.questions
        IN  /\ SubSeq(questions, 1, 6) = base
            /\ Len(questions) = (CASE p = "India" -> 9 [] p = "USA" -> 8 [] p = "UK" -> 8
                                   [] OTHER -> 6)
            /\ p = "India" => SubSeq(questions, 7, 9) =
                                  <<"What are the GST/PAN numbers mentioned?",
                                    "Which Indian courts have jurisdiction?",
                                    "Are there any FEMA compliance requirements?">>
            /\ p = "USA" => SubSeq(questions, 7, 8) =
                                <<"What US state law governs this contract?",
                                  "Are there any federal compliance requirements?">>
            /\ p = "UK" => SubSeq(questions, 7, 8) =
                               <<"Which UK courts have jurisdiction?",
                                 "Are there any Companies House requirements?">>

\* suggestions were asked for "UK" and eight came back
C19_Witness ==
    /\ op = "get_suggested_questions"
    /\ suggestions.country_preference = "UK"
    /\ Len(suggestions.questions) = 8

(***************************************************************************)
(* Properties of sessions, under SpecSessions                              *)
(***************************************************************************)
\* C17: with one engine per session, under every interleaving of the
\* sessions' set_document and answer_question calls, an answer given to a
\* session is one that the text the same session loaded last gives.
C17_SessionIsolation ==
    op = "session_answer" =>
        session_result.result \in
            AnswerTable[session_loaded[session_result.session],
                        session_result.result.question, session_result.preference]

\* both sessions loaded different documents and session 1 got an answer
\* that the document of session 2 does not give
C17_Witness ==
    /\ op = "session_answer"
    /\ session_result.session = 1
    /\ session_loaded[1] = "Pay $500 now."
    /\ session_loaded[2] = "Acme Corp may terminate upon 30 days notice."
    /\ session_result.result.answer = "Found monetary amounts: $500"
    /\ session_result.result \notin
          AnswerTable[session_loaded[2], session_result.result.question,
                      session_result.preference]

(***************************************************************************)
(* Properties of ChatMemory, under SpecMemory                              *)
(***************************************************************************)
\* C18: for every document id, get_history gives exactly the pairs added
\* for it since it was last cleared, in the order added; the memory has an
\* entry only for an id with such pairs, so get_history and clear_history
\* create none; a get_history call returned that sequence.
C18_HistoryIsWhatWasAdded ==
    /\ \A doc_id \in DocIds :
          /\ get_history(memory, doc_id) = added[doc_id]
          /\ doc_id \in DOMAIN memory => added[doc_id] # <<>>
    /\ DOMAIN memory \subseteq DocIds
    /\ op = "get_history" => memory_call.returned = added[memory_call.doc_id]

\* one id was cleared while the other keeps its two interactions
C18_Witness ==
    /\ op = "clear_history"
    /\ memory_call.doc_id = "d1"
    /\ "d1" \notin DOMAIN memory
    /\ "d2" \in DOMAIN memory
    /\ Len(added["d2"]) = 2
    /\ get_history(memory, "d2") = added["d2"]

(***************************************************************************)
(* Properties of risk factor detection, checked under SpecRisk             *)
(***************************************************************************)
\* C21: every case-insensitive match of a knowledge-base pattern in the
\* text gives exactly one RiskFactor, so an assessment has as many factors
\* as the text has matches, and the clause_context of each factor is a
\* sentence of the text that contains the matched text; no match is dropped,
\* also when the text of its sentence occurs more than once.
C21_EveryMatchOneFactor ==
    op = "assess_risk" =>
        LET cx == Subject(risk_text, TRUE)
            matches ==
                UNION {UNION {{<<c, p, k>> :
                                 k \in 1..Len(FindIn(risk_patterns[c].patterns[p].re, cx))} :
                              p \in 1..Len(risk_patterns[c].patterns)} :
                       c \in 1..Len(risk_patterns)}
            factors == assessment.risk_factors
        IN  /\ Len(factors) = Cardinality(matches)
            /\ \A k \in 1..Len(factors) :
                  /\ factors[k].clause_context \in Range(Sentences(risk_text))
                  /\ Contains(factors[k].clause_context, factors[k].text)

\* C22: the level of every risk factor is the first tier of the cascade that
\* applies to the pattern that matched it and to its sentence: critical if
\* the lowercased pattern string or sentence contains "unlimited liability",
\* "personal guarantee" or "immediate termination"; otherwise high if either
\* contains "unlimited", "immediate", "no cure", "personal guarantee",
\* "joint and several" or "liquidated damages"; otherwise medium if the
\* pattern string contains "penalty", "forfeit" or "breach"; otherwise low.
C22_SeverityCascade ==
    op = "assess_risk" =>
        \A k \in 1..Len(assessment.risk_factors) :
            LET factor == assessment.risk_factors[k]
                data == CHOOSE d \in Range(risk_patterns) : d.category = factor.category
                Whole(re) == \E m \in Range(FindIn(re, Subject(factor.text, TRUE))) :
                                m.s = 1 /\ m.e = Len(factor.text) + 1
                sources == {data.patterns[p].src :
                               p \in {q \in 1..Len(data.patterns) : Whole(data.patterns[q].re)}}
                sentence == Lower(factor.clause_context)
                Tier(src, words) ==
                    \E w \in words : Contains(Lower(src), w) \/ Contains(sentence, w)
                Expected(src) ==
                    IF Tier(src, {"unlimited liability", "personal guarantee",
                                  "immediate termination"})
                    THEN "critical"
                    ELSE IF Tier(src, {"unlimited", "immediate", "no cure",
                                       "personal guarantee", "joint and several",
                                       "liquidated damages"})
                    THEN "high"
                    ELSE IF \E w \in {"penalty", "forfeit", "breach"} : Contains(Lower(src), w)
                    THEN "medium"
                    ELSE "low"
            IN  /\ sources # {}
                /\ \A src \in sources : factor.level = Expected(src)

\* a match of the penalty pattern, medium on its own, was found in a sentence
\* that also holds "immediate termination", a critical and a high indicator,
\* and is critical
C22_Witness ==
    /\ op = "assess_risk"
    /\ \E k \in 1..Len(assessment.risk_factors) :
          /\ assessment.risk_factors[k].text = "penalty"
          /\ Contains(Lower(assessment.risk_factors[k].clause_context), "immediate termination")
          /\ assessment.risk_factors[k].level = "critical"

\* C23: the recommendations are the first two recommendations of each
\* factor, in factor order, followed by one line naming the missing clauses
\* when there are any, with every repetition after the first removed and
\* the list cut after 10 entries: they hold no duplicate, never more than 10
\* entries, keep the order of first occurrence, and leave out an entry only
\* when 10 earlier ones are kept.
C23_RecommendationsBuilt ==
    LET Built(result, factors, missing) ==
            LET FirstTwo(recs) == [i \in 1..(IF Len(recs) < 2 THEN Len(recs) ELSE 2) |-> recs[i]]
                Upto[k \in 0..Len(factors)] ==
                    IF k = 0 THEN <<>> ELSE Upto[k - 1] \o FirstTwo(factors[k].recommendations)
                line == "Consider adding the following clauses: " \o Join(missing, ", ")
                raw == IF missing = <<>> THEN Upto[Len(factors)]
                       ELSE Append(Upto[Len(factors)], line)
                First(x) == CHOOSE i \in 1..Len(raw) :
                                raw[i] = x /\ \A j \in 1..(i - 1) : raw[j] # x
            IN  /\ Len(result) <= 10
                /\ \A i, j \in 1..Len(result) : i # j => result[i] # result[j]
                /\ Range(result) \subseteq Range(raw)
                /\ \A i, j \in 1..Len(result) : i < j => First(result[i]) < First(result[j])
                /\ \A x \in Range(raw) \ Range(result) :
                      /\ Len(result) = 10
                      /\ \A i \in 1..10 : First(result[i]) < First(x)
    IN  /\ op = "recommendations" => Built(cs_recommendations, cs_factors, cs_missing)
        /\ op = "assess_risk" =>
              Built(assessment.recommendations, assessment.risk_factors,
                    assessment.missing_clauses)

\* five factors with three recommendations each, none shared, and missing
\* clauses gave eleven distinct entries, of which the first ten were kept
C23_Witness ==
    /\ op = "recommendations"
    /\ Len(cs_factors) = 5
    /\ cs_missing # <<>>
    /\ \A k \in 1..5 : Len(cs_factors[k].recommendations) = 3
    /\ Len(cs_recommendations) = 10
    /\ cs_recommendations[10] = "Cap clause 5"

(***************************************************************************)
(* Properties of the answers, checked under SpecAnswers                    *)
(***************************************************************************)
\* C24: a specialized extractor that found matches returns the distinct
\* values in sources and an answer made of its heading, at most the first 5
\* of them separated by ", ", and, when there are more than 5, " and N more"
\* with N the number of values not listed.
C24_AtMostFiveListed ==
    (op = "answer_question" /\ extractor # "general" /\ qa_result.sources # <<>>) =>
        LET sources == qa_result.sources
            heading ==
                CASE extractor = "money" -> "Found monetary amounts: "
                  [] extractor = "party" -> "Found parties: "
                  [] extractor = "date" -> "Found important dates: "
                  [] extractor = "jurisdiction" -> "Found jurisdiction/governing law: "
                  [] extractor = "termination" -> "Found termination terms: "
                  [] OTHER -> "Found payment terms: "
            listed == [i \in 1..(IF Len(sources) < 5 THEN Len(sources) ELSE 5) |-> sources[i]]
            more == IF Len(sources) > 5
                    THEN " and " \o ToString(Len(sources) - 5) \o " more"
                    ELSE ""
        IN  /\ \A i, j \in 1..Len(sources) : i # j => sources[i] # sources[j]
            /\ qa_result.answer = heading \o Join(listed, ", ") \o more

\* C25: the general fallback takes as sentences the pieces of the stored
\* text between runs of ".", "!" and "?"; a sentence is relevant iff at least
\* 2 of the words of the lowercased question that are longer than 3
\* characters occur in it, lowercased.  If a sentence is relevant the result
\* has as context and only source the longest relevant sentence, stripped,
\* the first one on ties, as answer that sentence, cut to 300 characters
\* and followed by "..." when it is longer, and confidence 0.6; otherwise it
\* is the fixed message with confidence 0.2.
C25_GeneralFallback ==
    (op = "answer_question" /\ extractor = "general") =>
        LET text == document_text
            n == Len(text)
            IsEnd(i) == CharAt(text, i) \in {".", "!", "?"}
            starts == {i \in 1..n : ~IsEnd(i) /\ (i = 1 \/ IsEnd(i - 1))}
            StopOf(i) == IF \E j \in i..n : IsEnd(j)
                         THEN CHOOSE j \in i..n : IsEnd(j) /\ \A k \in i..(j - 1) : ~IsEnd(k)
                         ELSE n + 1
            Sentence(i) == SubSeq(text, i, StopOf(i) - 1)
            q == Lower(qa_result.question)
            IsWord(i) == CharAt(q, i) \in WordCh
            wordStarts == {i \in 1..Len(q) : IsWord(i) /\ (i = 1 \/ ~IsWord(i - 1))}
            WordAt(i) == SubSeq(q, i, CHOOSE j \in i..Len(q) :
                                        /\ \A k \in i..j : IsWord(k)
                                        /\ (j = Len(q) \/ ~IsWord(j + 1)))
            Score(sentence) ==
                Cardinality({i \in wordStarts :
                                Len(WordAt(i)) > 3 /\ Contains(Lower(sentence), WordAt(i))})
            relevant == {i \in starts : Score(Sentence(i)) >= 2}
            Best(i) == /\ \A j \in relevant : Len(Strip(Sentence(j))) <= Len(Strip(Sentence(i)))
                       /\ \A j \in relevant :
                             j < i => Len(Strip(Sentence(j))) < Len(Strip(Sentence(i)))
        IN  IF relevant # {}
            THEN \E i \in relevant :
                    LET best == Strip(Sentence(i))
                    IN  /\ Best(i)
                        /\ qa_result.context = best
                        /\ qa_result.sources = <<best>>
                        /\ qa_result.confidence = 60
                        /\ qa_result.answer =
                              IF Len(best) > 300 THEN SubSeq(best, 1, 300) \o "..." ELSE best
            ELSE /\ qa_result.answer = "I couldn't find specific information to answer that question. Please try rephrasing or ask about parties, amounts, dates, or jurisdiction."
                 /\ qa_result.confidence = 20
                 /\ qa_result.sources = <<>>

\* the longest relevant sentence had 331 characters and the answer is its
\* first 300 followed by "..."
C25_Witness ==
    /\ op = "answer_question"
    /\ extractor = "general"
    /\ qa_result.confidence = 60
    /\ Len(qa_result.context) = 331
    /\ Len(qa_result.answer) = 303
    /\ SubSeq(qa_result.answer, 301, 303) = "..."

\* C30: a found answer of the general fallback (confidence 0.6) returns a
\* sentence that contains at least two distinct words of the question that
\* are longer than 3 characters.
C30_TwoDistinctWords ==
    (op = "answer_question" /\ extractor = "general" /\ qa_result.confidence = 60) =>
        LET q == Lower(qa_result.question)
            IsWord(i) == CharAt(q, i) \in WordCh
            question_words ==
                {SubSeq(q, i, j) :
                    <<i, j>> \in {p \in (1..Len(q)) \X (1..Len(q)) :
                                    /\ p[1] <= p[2]
                                    /\ \A k \in p[1]..p[2] : IsWord(k)
                                    /\ (p[1] = 1 \/ ~IsWord(p[1] - 1))
                                    /\ (p[2] = Len(q) \/ ~IsWord(p[2] + 1))}}
        IN  Cardinality({w \in question_words :
                            Len(w) > 3 /\ Contains(Lower(qa_result.context), w)}) >= 2

(***************************************************************************)
(* Properties of the risk score, checked under SpecRisk                    *)
(***************************************************************************)
\* C26: an assessment with no risk factor and at least one missing clause
\* has score exactly 10.0 and level critical, whatever the number of missing
\* clauses, and so has the score calculate_overall_risk_score returns for
\* no factor and at least one missing clause.
C26_MissingOnlyIsCritical ==
    /\ (op = "assess_risk" /\ assessment.risk_factors = <<>>
            /\ assessment.missing_clauses # <<>>) =>
          /\ assessment.overall_score = [n |-> 10, d |-> 1]
          /\ assessment.risk_level = "critical"
    /\ (op \in {"calculate", "add_missing"} /\ cs_factors = <<>> /\ cs_missing # <<>>) =>
          cs_result = [score |-> [n |-> 10, d |-> 1], level |-> "critical"]

\* a text that lacks one standard clause, Force Majeure, and has no risk
\* pattern was assessed as critical with score 10.0
C26_Witness ==
    /\ op = "assess_risk"
    /\ assessment.risk_factors = <<>>
    /\ assessment.missing_clauses = <<"Force Majeure">>
    /\ assessment.overall_score = [n |-> 10, d |-> 1]
    /\ assessment.risk_level = "critical"

\* C27: when the enhanced engine is available and assess_risk returned a
\* RiskAssessment without raising, results['risk_assessment'] at the end of
\* analyze_document_with_all_modules is that assessment; the empty result
\* (score 0, level Unknown, no risk factors) is stored only when the
\* constructor or the assessment raised.
C27_AssessmentIsStored ==
    op = "analyze" =>
        /\ (analysis.enhanced /\ analysis.raised = "none") =>
              /\ analysis.risk_assessment.risk_level = analysis.returned.risk_level
              /\ analysis.risk_assessment.overall_score = analysis.returned.overall_score
              /\ analysis.risk_assessment.risk_factors = analysis.returned.risk_factors
        /\ analysis.risk_assessment.risk_level = "Unknown" => analysis.raised # "none"

\* C28: for every result of answer_question, the confidence is below 0.5
\* exactly when sources is empty and exactly when the answer is one of the
\* seven fixed negative messages, and the confidence is one of 0.2, 0.3,
\* 0.6, 0.8, 0.85 and 0.9.
C28_LowConfidenceIsNotFound ==
    op = "answer_question" =>
        LET negative ==
                {"No monetary amounts found in the document.",
                 "No clear parties or organizations identified in the document.",
                 "No specific dates found in the document.",
                 "No clear jurisdiction or governing law clauses found.",
                 "No specific termination clauses found.",
                 "No specific payment terms found.",
                 "I couldn't find specific information to answer that question. Please try rephrasing or ask about parties, amounts, dates, or jurisdiction."}
        IN  /\ qa_result.confidence \in {20, 30, 60, 80, 85, 90}
            /\ (qa_result.confidence < 50) <=> (qa_result.sources = <<>>)
            /\ (qa_result.sources = <<>>) <=> (qa_result.answer \in negative)

\* a question about dates on a document that has none got the negative
\* answer, with confidence 0.3 and no sources
C28_Witness ==
    /\ op = "answer_question"
    /\ document_text = "Pay $500 now."
    /\ extractor = "date"
    /\ qa_result.confidence = 30
    /\ qa_result.sources = <<>>
    /\ qa_result.answer = "No specific dates found in the document."

\* C29: the recommendations of an assessment never number more than 7, and
\* when a clause is missing their last element is the line "Consider adding
\* the following clauses: " followed by the missing clauses.
C29_MissingLineIsLast ==
    op = "assess_risk" =>
        LET recs == assessment.recommendations
            missing == assessment.missing_clauses
        IN  /\ Len(recs) <= 7
            /\ missing # <<>> =>
                  /\ Len(recs) >= 1
                  /\ recs[Len(recs)] =
                        "Consider adding the following clauses: " \o Join(missing, ", ")

\* a text with factors of the three categories that have strategies and
\* with missing clauses was assessed: seven recommendations, the line last
C29_Witness ==
    /\ op = "assess_risk"
    /\ {assessment.risk_factors[k].category : k \in 1..Len(assessment.risk_factors)}
          = {"liability", "financial", "termination"}
    /\ assessment.missing_clauses # <<>>
    /\ Len(assessment.recommendations) = 7
    /\ SubSeq(assessment.recommendations[7], 1, 15) = "Consider adding"

====
